---- MODULE Spec2Model ----
(***************************************************************************)
(* Live ingestion and trending alert engine of ozbargainer.                *)
(*                                                                         *)
(* The store is the SQLite database of ozbargain/db/manager.py; the        *)
(* callers are the monitor loops (ozbargain/core/monitor.py and the older  *)
(* live_monitor.py) and the backfill workers (fetch_user_activity.py).     *)
(*                                                                         *)
(* Time is counted in hours.  The process clock (datetime.now()) and the   *)
(* SQLite clock (datetime('now')) are taken to be in the same time zone.   *)
(***************************************************************************)
EXTENDS Integers, Sequences, FiniteSets, TLC

VARIABLES
    live_deals,       \* table live_deals: resolved_id -> row (partial function)
    deal_snapshots,   \* table deal_snapshots, in AUTOINCREMENT id order
    alert_history,    \* table alert_history: set of <<deal_id, alert_type>>
    now,              \* the wall clock, in hours
    last_upsert,      \* observation: the arguments and the prior row of the last upsert_live_deal
    trending_result,  \* observation: the arguments and the rows of the last get_trending_deals
    wpc,              \* concurrent callers: position of each caller inside upsert_live_deal
    wdata,            \* concurrent callers: the record each caller is upserting
    wexisting,        \* concurrent callers: the row each caller's SELECT returned
    watched_tags,     \* table watched_tags: the set of stored tags
    watch_requests,   \* observation: the tags add_watched_tag was called with and remove_watched_tag was not since
    is_active_column, \* whether the watched_tags table of this database file has an is_active column
    program,          \* which monitor runs: "core" (ozbargain/core/monitor.py) or "legacy" (live_monitor.py)
    enabled,          \* TelegramNotifier.enabled: token and chat id are configured
    mpc,              \* position of the monitor: "initializing", "polling", "recovering", "broken", "exited"
    seen_rows,        \* LiveMonitor.seen_rows
    trending_elapsed, \* more than trending_check_interval has passed since last_trending_check
    last_recovery,    \* observation: the alert history and the evaluation counts at the last recovery
    delivered,        \* observation: messages delivered (or accepted by the mock) per <<deal, alert type>>
    failures,         \* observation: failed deliveries per <<deal, alert type>>
    evaluated,        \* observation: alert evaluations per <<deal, alert type>>
    notifier_returns, \* observation: every <<what happened, value returned>> of the notifier so far
    user_activity,    \* table user_activity: activity_ref -> row (activity_ref is UNIQUE)
    activity_stream,  \* the items get_user_activity yields for the user, in order
    futures,          \* fetch_user_activity: state of the task submitted for each item
    bpc,              \* position of fetch_user_activity: "idle", "discovering", "waiting", "reported", "failed"
    completed_count,  \* fetch_user_activity: the count it reports
    run,              \* which run of the backfill over the stream this is
    clock_ms,         \* time.time() in milliseconds
    archived,         \* observation: the tasks of this run whose user_activity row was written
    first_run,        \* observation: the user_activity table and the outcome at the end of the first run
    last_cleanup,     \* observation: the argument of the last cleanup_snapshots and the store around it
    alert_timestamp,  \* table alert_history: the timestamp column, <<deal_id, alert_type>> -> hour
    last_event,       \* observation: the feed row, the scrape result and the stored row of the last row ingested
    last_resolve,     \* observation: the argument and the value of the last resolve_node_id_by_title
    last_log_alert,   \* observation: the arguments of the last direct log_alert and whether the pair was present
    walk,             \* get_user_activity: its position, its locals, the page it reads and what it has yielded
    last_parse        \* observation: the text, the clock and the value of the last parse_relative_time

storeVars == <<live_deals, deal_snapshots, alert_history, alert_timestamp>>
ingestVars == <<last_event, last_resolve, last_log_alert, walk, last_parse>>
concVars == <<wpc, wdata, wexisting>>
configVars == <<watched_tags, watch_requests, is_active_column, program, enabled>>
monitorVars == <<mpc, seen_rows, trending_elapsed, last_recovery>>
notifyVars == <<delivered, failures, evaluated, notifier_returns>>
loopVars == <<watched_tags, watch_requests, is_active_column, program, enabled, mpc, seen_rows,
              trending_elapsed, last_recovery, delivered, failures, evaluated, notifier_returns>>
backfillVars == <<user_activity, activity_stream, futures, bpc, completed_count, run,
                  clock_ms, archived, first_run>>
vars == <<live_deals, deal_snapshots, alert_history, now, last_upsert, trending_result,
          wpc, wdata, wexisting, watched_tags, watch_requests, is_active_column, program, enabled,
          mpc, seen_rows, trending_elapsed, last_recovery, delivered, failures, evaluated,
          notifier_returns, user_activity, activity_stream, futures, bpc, completed_count, run,
          clock_ms, archived, first_run, last_cleanup, alert_timestamp, last_event, last_resolve,
          last_log_alert, walk, last_parse>>

-----------------------------------------------------------------------------
(* Bounds and input domains *)

\* upserts explored per behaviour (every upsert appends one snapshot)
MaxSnapshots == 2
\* clock ticks explored per behaviour
MaxTicks == 2
\* hours that pass in one clock tick
TickHours == 12

\* canonical ids the scraper resolves to
Ids == {"node/1", "node/2"}
\* values of the upvotes and comment_count a scrape returns
Counts == {0, 1, 2}
\* values of the downvotes a scrape returns
DownCounts == {0, 1}

Sources == {"live", "manual_fetch"}
AlertTypes == {"priority", "trending"}

\* the value of a column that holds no row / of a dict key that is absent
NoRow == [present |-> FALSE]

-----------------------------------------------------------------------------
(* Scraper results: the dicts handed to upsert_live_deal *)

\* a full scrape (scrape_deal_page): counters read from the page, 0 when the
\* element is missing or unparsable
FullScrape(id, up, down, cc, expired, tags) ==
    [id |-> id, url |-> id, title |-> id, tags |-> tags,
     upvotes |-> up, downvotes |-> down, comment_count |-> cc,
     is_expired |-> expired]

\* a fast scrape (scrape_deal_fast): the three counters are always 0
scrape_deal_fast(id, expired, tags) ==
    [id |-> id, url |-> id, title |-> id, tags |-> tags,
     upvotes |-> 0, downvotes |-> 0, comment_count |-> 0,
     is_expired |-> expired]

LiveData == {FullScrape(id, up, down, cc, FALSE, <<>>) :
                id \in Ids, up \in Counts, down \in DownCounts, cc \in Counts}
FastData == {scrape_deal_fast(id, FALSE, <<>>) : id \in Ids}

-----------------------------------------------------------------------------
(* Storage engine: upsert_live_deal *)

\* resolved_id = data.get("id") or data.get("url")
ResolvedId(data) == IF data.id # "" THEN data.id ELSE data.url

\* SELECT upvotes, comment_count FROM live_deals WHERE resolved_id = ?
SelectExisting(table, rid) ==
    IF rid \in DOMAIN table
    THEN [present |-> TRUE, upvotes |-> table[rid].upvotes,
          comment_count |-> table[rid].comment_count]
    ELSE NoRow

IntegrityGuardOff(incoming, existing, field) == incoming

IntegrityGuardKeepMax(incoming, existing, field) ==
    IF existing.present /\ incoming < existing[field]
    THEN existing[field]
    ELSE incoming

\* the Data Integrity Guard on one counter: an incoming 0 keeps a stored value > 0
IntegrityGuard(incoming, existing, field) ==
    IF existing.present /\ incoming = 0 /\ existing[field] > 0
    THEN existing[field]
    ELSE incoming

\* the values bound to INSERT OR REPLACE INTO live_deals
RowOf(data, source, existing, ts) ==
    [resolved_url |-> data.url, original_url |-> data.url, title |-> data.title,
     tags |-> data.tags,
     upvotes |-> IntegrityGuard(data.upvotes, existing, "upvotes"),
     downvotes |-> data.downvotes,
     comment_count |-> IntegrityGuard(data.comment_count, existing, "comment_count"),
     timestamp |-> ts, is_expired |-> data.is_expired, source |-> source]

SnapshotOfIncoming(data, row, ts) ==
    [deal_id |-> ResolvedId(data), timestamp |-> ts,
     upvotes |-> data.upvotes, comment_count |-> data.comment_count]

\* the values bound to INSERT INTO deal_snapshots
SnapshotOf(data, row, ts) ==
    [deal_id |-> ResolvedId(data), timestamp |-> ts,
     upvotes |-> row.upvotes, comment_count |-> row.comment_count]

\* INSERT OR REPLACE: the row keyed by rid is replaced, every other row is kept
ReplaceTable(table, rid, row) == [x \in {rid} |-> row]

Replace(table, rid, row) ==
    [x \in DOMAIN table \cup {rid} |-> IF x = rid THEN row ELSE table[x]]

\* the two tables after the write transaction of upsert_live_deal (INSERT OR
\* REPLACE, INSERT of the snapshot, commit), given what its SELECT returned
UpsertedOncePerValue(table, snapshots, data, source, existing, ts) ==
    LET row == RowOf(data, source, existing, ts)
        same == /\ existing.present
                /\ existing.upvotes = row.upvotes
                /\ existing.comment_count = row.comment_count
    IN  [live_deals |-> Replace(table, ResolvedId(data), row),
         deal_snapshots |-> IF same THEN snapshots
                            ELSE Append(snapshots, SnapshotOf(data, row, ts))]

Upserted(table, snapshots, data, source, existing, ts) ==
    LET row == RowOf(data, source, existing, ts)
    IN  [live_deals |-> Replace(table, ResolvedId(data), row),
         deal_snapshots |-> Append(snapshots, SnapshotOf(data, row, ts))]

WriteUpsertAsLive(data, source, existing) ==
    LET after == Upserted(live_deals, deal_snapshots, data, "live", existing, now)
    IN  /\ live_deals' = after.live_deals
        /\ deal_snapshots' = after.deal_snapshots

WriteUpsert(data, source, existing) ==
    LET after == Upserted(live_deals, deal_snapshots, data, source, existing, now)
    IN  /\ live_deals' = after.live_deals
        /\ deal_snapshots' = after.deal_snapshots

\* what the table held for rid before a call (observation only)
PriorOf(table, rid) ==
    IF rid \in DOMAIN table
    THEN [present |-> TRUE, upvotes |-> table[rid].upvotes,
          downvotes |-> table[rid].downvotes,
          comment_count |-> table[rid].comment_count]
    ELSE NoRow

\* the keys of its argument that upsert_live_deal reads (of those modelled)
KeysRead == {"id", "url", "title", "tags", "upvotes", "downvotes", "comment_count",
             "is_expired"}

\* upsert_live_deal run by one caller with no other writer in between
upsert_live_deal(data, source) ==
    /\ Len(deal_snapshots) < MaxSnapshots
    /\ WriteUpsert(data, source, SelectExisting(live_deals, ResolvedId(data)))
    /\ last_upsert' = [called |-> TRUE, source |-> source,
                       data |-> [k \in DOMAIN data \cap KeysRead |-> data[k]],
                       prior |-> PriorOf(live_deals, ResolvedId(data)),
                       priorSnapshots |-> deal_snapshots]

-----------------------------------------------------------------------------
(* Sequential callers of the store *)

\* the live loop stores a full scrape (process_deal)
LiveUpsert ==
    /\ \E data \in LiveData : upsert_live_deal(data, "live")
    /\ UNCHANGED <<alert_history, alert_timestamp, now, trending_result, concVars, loopVars, backfillVars,
                   last_cleanup, ingestVars>>

\* a backfill worker stores a fast scrape (process_item)
BackfillUpsert ==
    /\ \E data \in FastData : upsert_live_deal(data, "manual_fetch")
    /\ UNCHANGED <<alert_history, alert_timestamp, now, trending_result, concVars, loopVars, backfillVars,
                   last_cleanup, ingestVars>>

NoUpsert == [called |-> FALSE]
NoEvent == [called |-> FALSE]
NoResolve == [called |-> FALSE]
NoLogAlert == [called |-> FALSE]
NoParse == [called |-> FALSE]
\* get_user_activity has not been called
NoWalk == [pc |-> "idle", max_items |-> 0, count |-> 0, items_seen |-> {}, retries |-> 0,
           last_height |-> 0, dom |-> <<>>, yielded |-> <<>>]
\* the timestamp column of an empty alert_history table
NoTimestamps == [pr \in {} |-> 0]
NoQuery == [called |-> FALSE]

\* processes that share the database file, each on a connection of its own:
\* the monitor loop and two backfill workers
Callers == {"monitor", "worker1", "worker2"}
Idle == [w \in Callers |-> "idle"]
NoData == [w \in Callers |-> NoRow]

InitStore ==
    /\ live_deals = [x \in {} |-> NoRow]
    /\ deal_snapshots = <<>>
    /\ alert_history = {}
    /\ alert_timestamp = NoTimestamps

Pairs == Ids \X AlertTypes

NoRecovery == [called |-> FALSE]

NoCleanup == [called |-> FALSE]

\* no caller is inside upsert_live_deal and nothing has been observed yet
InitObservations ==
    /\ last_cleanup = NoCleanup
    /\ last_upsert = NoUpsert
    /\ trending_result = NoQuery
    /\ wpc = Idle /\ wdata = NoData /\ wexisting = NoData
    /\ delivered = [pr \in Pairs |-> 0]
    /\ failures = [pr \in Pairs |-> 0]
    /\ evaluated = [pr \in Pairs |-> 0]
    /\ notifier_returns = {}
    /\ last_recovery = NoRecovery
    /\ last_event = NoEvent
    /\ last_resolve = NoResolve
    /\ last_log_alert = NoLogAlert
    /\ walk = NoWalk
    /\ last_parse = NoParse

\* no backfill is running
InitNoBackfill ==
    /\ user_activity = <<>>
    /\ activity_stream = <<>>
    /\ futures = <<>>
    /\ bpc = "idle"
    /\ completed_count = 0
    /\ run = 0
    /\ clock_ms = 0
    /\ archived = {}
    /\ first_run = [called |-> FALSE]

\* no monitor is running: the store is used through its API alone
InitNoMonitor ==
    /\ watched_tags = {}
    /\ watch_requests = {}
    /\ is_active_column = FALSE
    /\ program = "core"
    /\ enabled = FALSE
    /\ mpc = "exited"
    /\ seen_rows = {}
    /\ trending_elapsed = FALSE

Init ==
    /\ InitStore
    /\ now = 0
    /\ InitObservations
    /\ InitNoMonitor
    /\ InitNoBackfill

Next == LiveUpsert \/ BackfillUpsert

-----------------------------------------------------------------------------
(* Storage engine: get_trending_deals *)

\* ((upvotes * 2) + comment_count) as heat_score
HeatScore(row) == (row.upvotes * 2) + row.comment_count

TrendingWhereAnySource(row, clock, hours, min_score) ==
    /\ row.timestamp > clock - hours
    /\ HeatScore(row) >= min_score
    /\ ~row.is_expired

\* the WHERE clause of the trending query
TrendingWhere(row, clock, hours, min_score) ==
    /\ row.timestamp > clock - hours
    /\ HeatScore(row) >= min_score
    /\ ~row.is_expired
    /\ row.source = "live"

\* every enumeration of a finite set as a sequence
Orders(S) ==
    {p \in [1..Cardinality(S) -> S] : \A i, j \in DOMAIN p : p[i] = p[j] => i = j}

OrderedAscending(table, p) ==
    \A i, j \in DOMAIN p : i < j => HeatScore(table[p[i]]) <= HeatScore(table[p[j]])

\* ORDER BY heat_score DESC; rows of equal heat_score come in any order
OrderedByHeat(table, p) ==
    \A i, j \in DOMAIN p : i < j => HeatScore(table[p[i]]) >= HeatScore(table[p[j]])

LimitIgnored(p, limit) == p

\* LIMIT {limit} when limit > 0, no LIMIT clause otherwise
Limited(p, limit) ==
    IF limit > 0 /\ limit < Len(p) THEN SubSeq(p, 1, limit) ELSE p

\* dict(row) of one returned row: the columns and the computed heat_score
TrendingRow(table, id) ==
    [resolved_id |-> id, title |-> table[id].title,
     upvotes |-> table[id].upvotes, comment_count |-> table[id].comment_count,
     heat_score |-> HeatScore(table[id])]

\* the results get_trending_deals may return on a table at a clock value
get_trending_deals(table, clock, hours, limit, min_score) ==
    LET matching == {id \in DOMAIN table :
                        TrendingWhere(table[id], clock, hours, min_score)}
    IN  {[i \in DOMAIN Limited(p, limit) |-> TrendingRow(table, Limited(p, limit)[i])] :
            p \in {q \in Orders(matching) : OrderedByHeat(table, q)}}

\* arguments the query is called with
QueryHours == {24}
QueryLimits == {-1, 0, 1, 2}
QueryScores == {20, 60}

\* a caller runs get_trending_deals and looks at the result
GetTrendingDeals ==
    /\ \E hours \in QueryHours, limit \in QueryLimits, min_score \in QueryScores :
         \E rows \in get_trending_deals(live_deals, now, hours, limit, min_score) :
            trending_result' = [called |-> TRUE, hours |-> hours, limit |-> limit,
                                min_score |-> min_score, rows |-> rows]
    /\ UNCHANGED <<storeVars, now, last_upsert, concVars, loopVars, backfillVars,
                   last_cleanup, ingestVars>>

\* time passes; a result looked at before is no longer the current one
Tick ==
    /\ now < MaxTicks * TickHours
    /\ now' = now + TickHours
    /\ trending_result' = NoQuery
    /\ UNCHANGED <<storeVars, last_upsert, concVars, loopVars, backfillVars,
                   last_cleanup, ingestVars>>

\* ids and counter values (upvotes, comment_count) of the tables queried
TrendIds == {"node/1", "node/2", "node/3"}
TrendStats == {<<10, 5>>, <<50, 0>>, <<0, 0>>}

\* how a row of the queried table came to be: not at all, by a live upsert, or
\* by a live upsert followed by a backfill upsert of the same deal
Histories ==
    {[seen |-> FALSE]} \cup
    {[seen |-> TRUE, stats |-> st, expired |-> e, backfilled |-> b] :
        st \in TrendStats, e \in BOOLEAN, b \in BOOLEAN}

\* the store after the upserts of one deal's history
AfterHistory(store, id, h) ==
    IF ~h.seen THEN store
    ELSE LET first == Upserted(store.live_deals, store.deal_snapshots,
                               FullScrape(id, h.stats[1], 0, h.stats[2], h.expired, <<>>),
                               "live", SelectExisting(store.live_deals, id), 0)
         IN  IF ~h.backfilled THEN first
             ELSE Upserted(first.live_deals, first.deal_snapshots,
                           scrape_deal_fast(id, h.expired, <<>>), "manual_fetch",
                           SelectExisting(first.live_deals, id), 0)

EmptyStore == [live_deals |-> [x \in {} |-> NoRow], deal_snapshots |-> <<>>]

\* a store filled at hour 0 by the upserts of three deals' histories
InitTrending ==
    /\ \E h \in [TrendIds -> Histories] :
         LET s1 == AfterHistory(EmptyStore, "node/1", h["node/1"])
             s2 == AfterHistory(s1, "node/2", h["node/2"])
             s3 == AfterHistory(s2, "node/3", h["node/3"])
         IN  /\ live_deals = s3.live_deals
             /\ deal_snapshots = s3.deal_snapshots
    /\ alert_history = {}
    /\ alert_timestamp = NoTimestamps
    /\ now = 0
    /\ InitObservations
    /\ InitNoMonitor
    /\ InitNoBackfill

NextTrending == GetTrendingDeals \/ Tick

SpecTrending == InitTrending /\ [][NextTrending]_vars

Spec == Init /\ [][Next]_vars

-----------------------------------------------------------------------------
(* Concurrent callers of upsert_live_deal *)

\* the source a caller passes: process_deal leaves the default, process_item
\* passes manual_fetch
SourceOf(w) == IF w = "monitor" THEN "live" ELSE "manual_fetch"

\* the records a caller upserts: a full scrape in the monitor loop, a fast
\* scrape in a backfill worker
DataOf(w) == IF w = "monitor" THEN LiveData ELSE FastData

\* a caller enters upsert_live_deal with a scraped record
BeginUpsert(w) ==
    /\ wpc[w] = "idle"
    /\ \E data \in DataOf(w) : wdata' = [wdata EXCEPT ![w] = data]
    /\ wpc' = [wpc EXCEPT ![w] = "select"]
    /\ UNCHANGED <<storeVars, now, last_upsert, trending_result, wexisting, loopVars, backfillVars,
                   last_cleanup, ingestVars>>

\* the caller's SELECT of the stored counters; it runs outside any
\* transaction, so it takes no lock that outlives it
SelectStep(w) ==
    /\ wpc[w] = "select"
    /\ wexisting' = [wexisting EXCEPT ![w] =
                        SelectExisting(live_deals, ResolvedId(wdata[w]))]
    /\ wpc' = [wpc EXCEPT ![w] = "write"]
    /\ UNCHANGED <<storeVars, now, last_upsert, trending_result, wdata, loopVars, backfillVars,
                   last_cleanup, ingestVars>>

\* the caller's write transaction: INSERT OR REPLACE, INSERT of the snapshot
\* and commit; the database lock makes it atomic for the other connections
WriteStep(w) ==
    /\ wpc[w] = "write"
    /\ WriteUpsert(wdata[w], SourceOf(w), wexisting[w])
    /\ wpc' = [wpc EXCEPT ![w] = "done"]
    /\ UNCHANGED <<alert_history, alert_timestamp, now, last_upsert, trending_result, wdata, wexisting, loopVars, backfillVars,
                   last_cleanup, ingestVars>>

NextConc ==
    \E w \in Callers : BeginUpsert(w) \/ SelectStep(w) \/ WriteStep(w)

SpecConc == Init /\ [][NextConc]_vars

-----------------------------------------------------------------------------
(* The write transaction of upsert_live_deal, statement by statement

   sqlite3.connect leaves the connection in its default mode: the first
   INSERT opens a transaction, and what it and the second INSERT write is
   seen by the other connections from conn.commit() on.  live_deals and
   deal_snapshots are the committed tables, which every other connection
   reads. *)

\* a caller holds the write lock of the database: it has run its first INSERT
\* and not yet committed or rolled back
InTransaction(w) == wpc[w] \in {"inserted", "snapshotted"}

InsertDealAutocommit(w) ==
    /\ live_deals' = Upserted(live_deals, deal_snapshots, wdata[w], SourceOf(w),
                              wexisting[w], now).live_deals
    /\ UNCHANGED deal_snapshots

\* what the other connections see of the first INSERT before the commit
InsertDealVisible(w) == UNCHANGED <<live_deals, deal_snapshots>>

\* INSERT OR REPLACE INTO live_deals: it opens the transaction, or raises
\* "database is locked" while another connection holds the write lock
InsertDeal(w) ==
    /\ wpc[w] = "write"
    /\ IF \E other \in Callers \ {w} : InTransaction(other)
       THEN /\ wpc' = [wpc EXCEPT ![w] = "locked_out"]
            /\ UNCHANGED <<live_deals, deal_snapshots>>
       ELSE /\ wpc' = [wpc EXCEPT ![w] = "inserted"]
            /\ InsertDealVisible(w)
    /\ UNCHANGED <<alert_history, alert_timestamp, now, last_upsert, trending_result, wdata,
                   wexisting, loopVars, backfillVars, last_cleanup, ingestVars>>

\* INSERT INTO deal_snapshots, inside the open transaction
InsertSnapshot(w) ==
    /\ wpc[w] = "inserted"
    /\ wpc' = [wpc EXCEPT ![w] = "snapshotted"]
    /\ UNCHANGED <<storeVars, now, last_upsert, trending_result, wdata, wexisting, loopVars,
                   backfillVars, last_cleanup, ingestVars>>

\* the upsert raises between the two writes or before the commit: the
\* connection is dropped without a commit and SQLite rolls the transaction back
Rollback(w) ==
    /\ InTransaction(w)
    /\ wpc' = [wpc EXCEPT ![w] = "rolled_back"]
    /\ UNCHANGED <<storeVars, now, last_upsert, trending_result, wdata, wexisting, loopVars,
                   backfillVars, last_cleanup, ingestVars>>

\* conn.commit(): the row and the snapshot reach the other connections
Commit(w) ==
    /\ wpc[w] = "snapshotted"
    /\ WriteUpsert(wdata[w], SourceOf(w), wexisting[w])
    /\ wpc' = [wpc EXCEPT ![w] = "done"]
    /\ UNCHANGED <<alert_history, alert_timestamp, now, last_upsert, trending_result, wdata,
                   wexisting, loopVars, backfillVars, last_cleanup, ingestVars>>

NextTxn ==
    \E w \in Callers :
       BeginUpsert(w) \/ SelectStep(w) \/ InsertDeal(w) \/ InsertSnapshot(w)
          \/ Rollback(w) \/ Commit(w)

SpecTxn == Init /\ [][NextTxn]_vars

\* the store after the upserts of the callers of p, run one after the other
\* in the order of p
RECURSIVE SerialStore(_)
SerialStore(p) ==
    IF Len(p) = 0 THEN EmptyStore
    ELSE LET before == SerialStore(SubSeq(p, 1, Len(p) - 1))
             w == p[Len(p)]
         IN  Upserted(before.live_deals, before.deal_snapshots, wdata[w], SourceOf(w),
                      SelectExisting(before.live_deals, ResolvedId(wdata[w])), now)

\* C3: when no caller is inside upsert_live_deal, the rows and the snapshots
\* are those of the finished upserts run in some serial order, so no upsert
\* decided its guard on counters another caller had replaced in between.
C3_Original ==
    (\A w \in Callers : wpc[w] \in {"idle", "done"}) =>
        \E p \in Orders({w \in Callers : wpc[w] = "done"}) :
            /\ SerialStore(p).live_deals = live_deals
            /\ SerialStore(p).deal_snapshots = deal_snapshots

-----------------------------------------------------------------------------
(* Storage engine: alert history and watched tags *)

\* SELECT 1 FROM alert_history WHERE deal_id = ? AND alert_type = ?
has_alerted(history, deal_id, alert_type) == <<deal_id, alert_type>> \in history

log_alert_dropped(history, deal_id, alert_type) == history

log_alert_by_deal(history, deal_id, alert_type) ==
    history \cup {<<deal_id, type>> : type \in {"priority", "trending"}}

\* INSERT OR IGNORE INTO alert_history: the <<deal_id, alert_type>> of the rows
log_alert(history, deal_id, alert_type) == history \cup {<<deal_id, alert_type>>}

log_alert_timestamp_replaced(times, deal_id, alert_type, ts) ==
    [pr \in DOMAIN times \cup {<<deal_id, alert_type>>} |->
        IF pr = <<deal_id, alert_type>> THEN ts ELSE times[pr]]

\* INSERT OR IGNORE INTO alert_history: the timestamp column of the rows; the
\* row of a pair that is present is kept as it is
log_alert_timestamp(times, deal_id, alert_type, ts) ==
    IF <<deal_id, alert_type>> \in DOMAIN times THEN times
    ELSE [pr \in DOMAIN times \cup {<<deal_id, alert_type>>} |->
             IF pr = <<deal_id, alert_type>> THEN ts ELSE times[pr]]

\* tags an operator may watch, and the tag lists a scrape returns
Tags == {"gaming"}
TagLists == {<<>>, <<"gaming">>}

\* INSERT OR IGNORE INTO watched_tags (tag, is_active): fails, and the error
\* is printed, when the table has no is_active column
add_watched_tag(tag) ==
    /\ watched_tags' = IF is_active_column THEN watched_tags \cup {tag} ELSE watched_tags
    /\ UNCHANGED <<is_active_column, program, enabled>>

\* DELETE FROM watched_tags WHERE tag = ?
remove_watched_tag(tag) ==
    /\ watched_tags' = watched_tags \ {tag}
    /\ UNCHANGED <<is_active_column, program, enabled>>

\* SELECT tag FROM watched_tags WHERE is_active = 1: the tags, or the
\* OperationalError raised when the table has no is_active column
get_watched_tags ==
    IF is_active_column THEN [raised |-> FALSE, tags |-> watched_tags]
    ELSE [raised |-> TRUE, tags |-> {}]

\* log_alert called on the store
LogAlertOf(pairs) ==
    /\ \E pr \in pairs :
          /\ alert_history' = log_alert(alert_history, pr[1], pr[2])
          /\ alert_timestamp' = log_alert_timestamp(alert_timestamp, pr[1], pr[2], now)
          /\ last_log_alert' = [called |-> TRUE, pair |-> pr, at |-> now,
                                present |-> has_alerted(alert_history, pr[1], pr[2])]
    /\ UNCHANGED <<live_deals, deal_snapshots, now, last_upsert, trending_result, concVars,
                   loopVars, backfillVars, last_cleanup, last_event, last_resolve, walk, last_parse>>

LogAlert == LogAlertOf(Pairs)

NextAlerts == LogAlert \/ Tick

\* the alert history used through the API of the store, over time
SpecAlerts == Init /\ [][NextAlerts]_vars

-----------------------------------------------------------------------------
(* Storage engine: resolve_node_id_by_title *)

\* the characters of the ids and titles that are matched as text
Spelling ==
    "" :> <<>> @@
    "now" :> <<"n", "o", "w">> @@
    "Now" :> <<"N", "o", "w">> @@
    "just now" :> <<"j", "u", "s", "t", " ", "n", "o", "w">> @@
    " " :> <<" ">> @@
    "5" :> <<"5">> @@
    "soon" :> <<"s", "o", "o", "n">> @@
    "x min" :> <<"x", " ", "m", "i", "n">> @@
    "5 weeks" :> <<"5", " ", "w", "e", "e", "k", "s">> @@
    "5 min" :> <<"5", " ", "m", "i", "n">> @@
    "5 minutes ago" :> <<"5", " ", "m", "i", "n", "u", "t", "e", "s", " ", "a", "g", "o">> @@
    "0 min" :> <<"0", " ", "m", "i", "n">> @@
    "3 sec" :> <<"3", " ", "s", "e", "c">> @@
    "90 sec" :> <<"9", "0", " ", "s", "e", "c">> @@
    "1 hour" :> <<"1", " ", "h", "o", "u", "r">> @@
    "2 hours" :> <<"2", " ", "h", "o", "u", "r", "s">> @@
    " 2 Hours " :> <<" ", "2", " ", "H", "o", "u", "r", "s", " ">> @@
    "25 hours" :> <<"2", "5", " ", "h", "o", "u", "r", "s">> @@
    "1 day" :> <<"1", " ", "d", "a", "y">> @@
    "2 days ago" :> <<"2", " ", "d", "a", "y", "s", " ", "a", "g", "o">> @@
    "-1 min" :> <<"-", "1", " ", "m", "i", "n">> @@
    "+5 min" :> <<"+", "5", " ", "m", "i", "n">> @@
    "1_0 min" :> <<"1", "_", "0", " ", "m", "i", "n">> @@
    "5.5 min" :> <<"5", ".", "5", " ", "m", "i", "n">> @@
    "5min" :> <<"5", "m", "i", "n">> @@
    "3 unknown" :> <<"3", " ", "u", "n", "k", "n", "o", "w", "n">> @@
    "800000 days" :> <<"8", "0", "0", "0", "0", "0", " ", "d", "a", "y", "s">> @@
    "18000000 hours" :> <<"1", "8", "0", "0", "0", "0", "0", "0", " ", "h", "o", "u", "r", "s">> @@
    "1000000000 days" :> <<"1", "0", "0", "0", "0", "0", "0", "0", "0", "0", " ", "d", "a", "y", "s">> @@
    "/" :> <<"/">> @@
    "/node/1" :> <<"/", "n", "o", "d", "e", "/", "1">> @@
    "/node/2" :> <<"/", "n", "o", "d", "e", "/", "2">> @@
    "https://www.ozbargain.com.au" :> <<"h", "t", "t", "p", "s", ":", "/", "/", "w", "w", "w", ".", "o", "z", "b", "a", "r", "g", "a", "i", "n", ".", "c", "o", "m", ".", "a", "u">> @@
    "https://www.ozbargain.com.au/node/1" :> <<"h", "t", "t", "p", "s", ":", "/", "/", "w", "w", "w", ".", "o", "z", "b", "a", "r", "g", "a", "i", "n", ".", "c", "o", "m", ".", "a", "u", "/", "n", "o", "d", "e", "/", "1">> @@
    "https://www.ozbargain.com.au/node/2" :> <<"h", "t", "t", "p", "s", ":", "/", "/", "w", "w", "w", ".", "o", "z", "b", "a", "r", "g", "a", "i", "n", ".", "c", "o", "m", ".", "a", "u", "/", "n", "o", "d", "e", "/", "2">> @@
    "node/" :> <<"n", "o", "d", "e", "/">> @@
    "comment/" :> <<"c", "o", "m", "m", "e", "n", "t", "/">> @@
    "node/%" :> <<"n", "o", "d", "e", "/", "%">> @@
    "node/1" :> <<"n", "o", "d", "e", "/", "1">> @@
    "node/2" :> <<"n", "o", "d", "e", "/", "2">> @@
    "comment/7" :> <<"c", "o", "m", "m", "e", "n", "t", "/", "7">> @@
    "node/1#comment-7" :> <<"n", "o", "d", "e", "/", "1", "#", "c", "o", "m", "m", "e", "n", "t", "-", "7">> @@
    "https://www.ozbargain.com.au/deals" :> <<"h", "t", "t", "p", "s", ":", "/", "/", "w", "w", "w", ".", "o", "z", "b", "a", "r", "g", "a", "i", "n", ".", "c", "o", "m", ".", "a", "u", "/", "d", "e", "a", "l", "s">> @@
    "Deal" :> <<"D", "e", "a", "l">> @@
    "deal" :> <<"d", "e", "a", "l">> @@
    "Big Deal" :> <<"B", "i", "g", " ", "D", "e", "a", "l">> @@
    "5% off" :> <<"5", "%", " ", "o", "f", "f">> @@
    "50 off" :> <<"5", "0", " ", "o", "f", "f">> @@
    "OzBargain" :> <<"O", "z", "B", "a", "r", "g", "a", "i", "n">> @@
    "unknown" :> <<"u", "n", "k", "n", "o", "w", "n">>

\* the lower-case letter of an upper-case ASCII letter
LowerCase ==
    "A" :> "a" @@ "B" :> "b" @@ "C" :> "c" @@ "D" :> "d" @@ "E" :> "e" @@ "F" :> "f" @@ "G" :> "g" @@
    "H" :> "h" @@ "I" :> "i" @@ "J" :> "j" @@ "K" :> "k" @@ "L" :> "l" @@ "M" :> "m" @@ "N" :> "n" @@
    "O" :> "o" @@ "P" :> "p" @@ "Q" :> "q" @@ "R" :> "r" @@ "S" :> "s" @@ "T" :> "t" @@ "U" :> "u" @@
    "V" :> "v" @@ "W" :> "w" @@ "X" :> "x" @@ "Y" :> "y" @@ "Z" :> "z"

Lower(c) == IF c \in DOMAIN LowerCase THEN LowerCase[c] ELSE c

\* text LIKE pattern of SQLite: % matches any run of characters, _ matches one
\* character, and ASCII letters match whatever their case
RECURSIVE Like(_, _)
Like(pattern, text) ==
    IF pattern = <<>> THEN text = <<>>
    ELSE IF Head(pattern) = "%"
         THEN Like(Tail(pattern), text) \/ (text # <<>> /\ Like(pattern, Tail(text)))
         ELSE /\ text # <<>>
              /\ Head(pattern) = "_" \/ Lower(Head(pattern)) = Lower(Head(text))
              /\ Like(Tail(pattern), Tail(text))

\* str.startswith
StartsWith(text, prefix) ==
    /\ Len(prefix) <= Len(text)
    /\ SubSeq(text, 1, Len(prefix)) = prefix

\* str.endswith
EndsWith(text, suffix) ==
    /\ Len(suffix) <= Len(text)
    /\ SubSeq(text, Len(text) - Len(suffix) + 1, Len(text)) = suffix

\* sub in text
HasSub(text, sub) ==
    \E i \in 1..(Len(text) - Len(sub) + 1) : SubSeq(text, i, i + Len(sub) - 1) = sub

\* str.replace: every occurrence, from the left
RECURSIVE replace(_, _, _)
replace(text, old, new) ==
    IF Len(text) < Len(old) THEN text
    ELSE IF SubSeq(text, 1, Len(old)) = old
    THEN new \o replace(SubSeq(text, Len(old) + 1, Len(text)), old, new)
    ELSE <<Head(text)>> \o replace(Tail(text), old, new)

\* the text of a link of the feed, after the site's address was put before it
UrlText(url) ==
    <<"h", "t", "t", "p", "s", ":", "/", "/", "w", "w", "w", ".", "o", "z", "b", "a", "r",
      "g", "a", "i", "n", ".", "c", "o", "m", ".", "a", "u", "/">>
    \o Spelling[url.path]
    \o (IF url.redir THEN <<"/", "r", "e", "d", "i", "r">> ELSE <<>>)

\* the text of the url after the lines "Normalize URL" of the run loop
normalize_url(text) ==
    IF HasSub(text, <<"/", "n", "o", "d", "e", "/">>)
    THEN IF EndsWith(text, <<"/", "r", "e", "d", "i", "r">>)
         THEN replace(text, <<"/", "r", "e", "d", "i", "r">>, <<>>)
         ELSE IF HasSub(text, <<"/", "r", "e", "d", "i", "r", "?">>)
         THEN replace(text, <<"/", "r", "e", "d", "i", "r", "?">>, <<"?">>)
         ELSE text
    ELSE text

\* None, which tests false like the empty string
None == ""

\* the rows of the second SELECT are used when the first SELECT has none
ExactFirst(exact, fuzzy) == IF exact # {} THEN exact ELSE fuzzy

\* the values resolve_node_id_by_title may return for a title: each SELECT has
\* LIMIT 1 and no ORDER BY, so any row that matches may be the one returned
resolve_node_id_by_title(table, title) ==
    IF title = "" THEN {None}
    ELSE LET nodes == {id \in DOMAIN table : Like(Spelling["node/%"], Spelling[id])}
             exact == {id \in nodes : table[id].title = title}
             fuzzy == {id \in nodes :
                          Like(<<"%">> \o Spelling[title] \o <<"%">>,
                               Spelling[table[id].title])}
             rows == ExactFirst(exact, fuzzy)
         IN  IF rows = {} THEN {None} ELSE rows

-----------------------------------------------------------------------------
(* Notifier *)

\* what can happen to one message: the mock prints it when no credentials are
\* configured; otherwise the HTTP call delivers it or fails
SendOutcomes == IF enabled THEN {"delivered", "failed"} ELSE {"mock"}

\* TelegramNotifier.send_message of notifier.py: every path falls off the end
\* of the method or runs a bare return
send_message(outcome) == "None"

\* send of the notifier ozbargain/core/monitor.py imports
\* (ozbargain/notifier/telegram.py)
telegram_send(outcome) == IF outcome = "failed" THEN "False" ELSE "True"

\* the notifier each monitor imports
Notify(outcome) == IF program = "core" THEN telegram_send(outcome) ELSE send_message(outcome)

\* whether the caller then calls log_alert: monitor.py tests the value
\* returned, live_monitor.py calls log_alert unconditionally
LogsAfterSend(returned) == IF program = "core" THEN returned = "True" ELSE TRUE

\* failed deliveries explored per <<deal, alert type>>
MaxSendFailures == 1

\* observation counters stop at 2
Bump(n) == IF n < 2 THEN n + 1 ELSE n

\* one alert attempt for pair pr that ends in outcome: the message is sent
\* and the alert is logged or not
Attempted(history, pr, outcome) ==
    IF LogsAfterSend(Notify(outcome)) THEN log_alert(history, pr[1], pr[2]) ELSE history

\* the alert history after the attempts for the pairs of left
RECURSIVE AfterAttempts(_, _, _)
AfterAttempts(history, attempts, left) ==
    IF left = {} THEN history
    ELSE LET pr == CHOOSE x \in left : TRUE
         IN  AfterAttempts(Attempted(history, pr, attempts[pr]), attempts, left \ {pr})

\* the timestamp column of the alert history after the same attempts
RECURSIVE TimestampsAfterAttempts(_, _, _, _)
TimestampsAfterAttempts(times, attempts, left, ts) ==
    IF left = {} THEN times
    ELSE LET pr == CHOOSE x \in left : TRUE
             logged == IF LogsAfterSend(Notify(attempts[pr]))
                       THEN log_alert_timestamp(times, pr[1], pr[2], ts)
                       ELSE times
         IN  TimestampsAfterAttempts(logged, attempts, left \ {pr}, ts)

\* the pairs of due were evaluated and attempts were made: the observations
Observe(due, attempts) ==
    /\ evaluated' = [pr \in Pairs |-> IF pr \in due THEN Bump(evaluated[pr]) ELSE evaluated[pr]]
    /\ delivered' = [pr \in Pairs |->
                        IF pr \in DOMAIN attempts /\ attempts[pr] # "failed"
                        THEN Bump(delivered[pr]) ELSE delivered[pr]]
    /\ failures' = [pr \in Pairs |->
                        IF pr \in DOMAIN attempts /\ attempts[pr] = "failed"
                        THEN failures[pr] + 1 ELSE failures[pr]]
    /\ notifier_returns' = notifier_returns \cup
                              {<<attempts[pr], Notify(attempts[pr])>> : pr \in DOMAIN attempts}

\* the outcomes the notifier may have for the pairs of S
OutcomesFor(S) ==
    {a \in [S -> SendOutcomes] :
        \A pr \in S : a[pr] = "failed" => failures[pr] < MaxSendFailures}

\* the alert evaluation both paths share: every pair of due not yet in the
\* alert history is sent, and logged as the caller decides
EvaluateAndAlert(due) ==
    LET todo == {pr \in due : ~has_alerted(alert_history, pr[1], pr[2])}
    IN  \E attempts \in OutcomesFor(todo) :
           /\ alert_history' = AfterAttempts(alert_history, attempts, todo)
           /\ alert_timestamp' = TimestampsAfterAttempts(alert_timestamp, attempts, todo, now)
           /\ Observe(due, attempts)

-----------------------------------------------------------------------------
(* Monitor loop *)

\* MIN_HEAT_SCORE default
MinHeatScore == 60
\* hours argument of the trending check
TrendingWindowHours == 24

\* links of the feed rows: the deal page of a node, bare or behind /redir
FeedUrls == {[path |-> "node/1", redir |-> FALSE],
             [path |-> "node/1", redir |-> TRUE],
             [path |-> "node/2", redir |-> FALSE]}
\* feed rows: the link, the type column and the text of the link
FeedRows == {[url |-> u, type |-> "Deal", title |-> u.path] : u \in FeedUrls} \cup
            {[url |-> [path |-> "node/2", redir |-> FALSE], type |-> "Forum",
              title |-> "node/2"]}

NormalizeAny(url) == [url EXCEPT !.redir = FALSE]

\* a url that contains /node/ loses its /redir segment before it is scraped
Normalize(url) ==
    IF StartsWith(Spelling[url.path], Spelling["node/"])
    THEN [url EXCEPT !.redir = FALSE]
    ELSE url

\* the url handed to process_deal: live_monitor.py passes the link as it is
ScrapedUrl(url) == IF program = "core" THEN Normalize(url) ELSE url

\* counters a scrape returns in the monitor loop
MonitorCounts == {0, 30}

\* what scrape_deal_page may return or raise for a url
ScrapeResults(url) ==
    {[kind |-> "error"], [kind |-> "raised"], [kind |-> "closed"]} \cup
    {[kind |-> "ok", data |-> FullScrape(url.path, up, 0, 0, expired, tags)] :
        up \in MonitorCounts, expired \in BOOLEAN, tags \in TagLists}

\* the tags of a scraped deal that are watched
Matches(data, watched) == {t \in watched : \E i \in DOMAIN data.tags : data.tags[i] = t}

\* the priority alert of process_deal for a stored deal: the pairs whose
\* alert history is consulted (an error of get_watched_tags is caught and
\* printed)
PriorityDueExpiredToo(deal_id, data) ==
    IF get_watched_tags.raised THEN {}
    ELSE IF Matches(data, get_watched_tags.tags) = {} THEN {}
    ELSE {<<deal_id, "priority">>}

PriorityDue(deal_id, data) ==
    IF data.is_expired THEN {}
    ELSE IF get_watched_tags.raised THEN {}
    ELSE IF Matches(data, get_watched_tags.tags) = {} THEN {}
    ELSE {<<deal_id, "priority">>}

\* event_data of a feed row; monitor.py puts the text of the link in it
event_data(row) ==
    IF program = "core"
    THEN [title |-> row.title, original_url |-> row.url, type |-> row.type]
    ELSE [original_url |-> row.url, type |-> row.type]

\* dict.update
Update(data, other) ==
    [k \in DOMAIN data \cup DOMAIN other |-> IF k \in DOMAIN other THEN other[k] ELSE data[k]]

\* titles of pages that are not the deal page
PlaceholderTitles == {"OzBargain", "www.ozbargain.com.au", "Performing security verification"}

\* the title of the row replaces a title that is missing or a placeholder
RecoverTitle(deal_data, event) ==
    LET rows_title == IF "title" \in DOMAIN event THEN event.title ELSE None
    IN  IF rows_title # None /\ (deal_data.title = "" \/ deal_data.title \in PlaceholderTitles)
        THEN [deal_data EXCEPT !.title = rows_title]
        ELSE deal_data

\* a comment id is replaced by the node id its title resolves to, if any
ResolveCommentNever(deal_data) == {deal_data}

ResolveComment(deal_data) ==
    IF deal_data.id # "" /\ StartsWith(Spelling[deal_data.id], Spelling["comment/"])
    THEN {IF parent_id # None THEN [deal_data EXCEPT !.id = parent_id] ELSE deal_data :
             parent_id \in resolve_node_id_by_title(live_deals, deal_data.title)}
    ELSE {deal_data}

\* the records process_deal may hand to upsert_live_deal for a scrape:
\* live_monitor.py merges the event data and does nothing else
Prepared(event, scraped) ==
    IF program = "core"
    THEN ResolveComment(RecoverTitle(Update(scraped, event), event))
    ELSE {Update(scraped, event)}

\* a process_deal without the test for an error record
process_deal_unchecked(url, event, result) ==
    LET deal_data == IF result.kind = "error"
                     THEN FullScrape(url.path, 0, 0, 0, FALSE, <<>>)
                     ELSE result.data
    IN  /\ upsert_live_deal(deal_data, "live")
        /\ EvaluateAndAlert(PriorityDue(ResolvedId(deal_data), deal_data))

\* process_deal given what the scrape returned: an error record ends it,
\* a deal is upserted and evaluated for the priority alert
process_deal(url, event, result) ==
    \/ /\ result.kind = "error"
       /\ UNCHANGED <<storeVars, last_upsert, notifyVars>>
    \/ /\ result.kind = "ok"
       /\ \E deal_data \in Prepared(event, result.data) :
             /\ upsert_live_deal(deal_data, "live")
             /\ EvaluateAndAlert(PriorityDue(ResolvedId(deal_data), deal_data))

SeenAfterSuccess(row, result) ==
    IF result.kind = "ok" THEN seen_rows \cup {row.url} ELSE seen_rows

\* self.seen_rows.add(url), which comes before the scrape
SeenAfter(row, result) == seen_rows \cup {row.url}

\* one feed row of a poll, given what its scrape returns or raises: rows that
\* are not deals or whose url was seen are skipped; a new url is remembered,
\* then scraped and processed.  An exception of the scrape is swallowed,
\* except that monitor.py lets a closed browser end the session;
\* live_monitor.py swallows that one too and keeps polling a browser that is
\* gone
ProcessRowWith(row, result) ==
    /\ mpc = "polling"
    /\ row.type = "Deal"
    /\ row.url \notin seen_rows
    /\ seen_rows' = SeenAfter(row, result)
    /\ \/ /\ result.kind \in {"ok", "error"}
          /\ process_deal(ScrapedUrl(row.url), event_data(row), result)
          /\ UNCHANGED mpc
       \/ /\ result.kind = "raised"
          /\ UNCHANGED <<storeVars, last_upsert, notifyVars, mpc>>
       \/ /\ result.kind = "closed"
          /\ mpc' = IF program = "core" THEN "recovering" ELSE "broken"
          /\ UNCHANGED <<storeVars, last_upsert, notifyVars>>
    /\ UNCHANGED <<now, trending_result, concVars, last_cleanup, last_resolve, last_log_alert, walk, last_parse,
                   backfillVars, configVars, trending_elapsed, last_recovery>>

\* one feed row of a poll
ProcessRow ==
    /\ \E row \in FeedRows :
          \E result \in ScrapeResults(ScrapedUrl(row.url)) : ProcessRowWith(row, result)
    /\ UNCHANGED last_event

\* the trending check at the top of a poll, when the interval has elapsed
\* (it uses the store alone, so it still runs when the browser is gone)
TrendingCheck ==
    /\ mpc \in {"polling", "broken"}
    /\ trending_elapsed
    /\ trending_elapsed' = FALSE
    /\ \E rows \in get_trending_deals(live_deals, now, TrendingWindowHours, -1, MinHeatScore) :
         EvaluateAndAlert({<<rows[i].resolved_id, "trending">> : i \in DOMAIN rows})
    /\ UNCHANGED <<live_deals, deal_snapshots, now, last_upsert, trending_result, concVars, last_cleanup, ingestVars, backfillVars,
                   configVars, mpc, seen_rows, last_recovery>>

\* more than trending_check_interval minutes pass
IntervalElapses ==
    /\ ~trending_elapsed
    /\ trending_elapsed' = TRUE
    /\ UNCHANGED <<storeVars, now, last_upsert, trending_result, concVars, last_cleanup, ingestVars, backfillVars, configVars,
                   mpc, seen_rows, last_recovery, notifyVars>>

\* the browser session is set up; an exception ends in the recovery handler
\* of monitor.py, and ends the process of live_monitor.py
InitSession ==
    /\ mpc = "initializing"
    /\ \E ok \in BOOLEAN :
          mpc' = IF ok THEN "polling" ELSE IF program = "core" THEN "recovering" ELSE "exited"
    /\ UNCHANGED <<storeVars, now, last_upsert, trending_result, concVars, last_cleanup, ingestVars, backfillVars, configVars,
                   seen_rows, trending_elapsed, last_recovery, notifyVars>>

\* a recovery handler that would lose the alert history
RecoverLosingHistory ==
    /\ mpc = "recovering"
    /\ mpc' = "initializing"
    /\ alert_history' = {}
    /\ alert_timestamp' = NoTimestamps
    /\ last_recovery' = [called |-> TRUE, alert_history |-> alert_history,
                         evaluated |-> evaluated]
    /\ UNCHANGED <<live_deals, deal_snapshots, now, last_upsert, trending_result, concVars, last_cleanup, ingestVars, backfillVars,
                   configVars, seen_rows, trending_elapsed, notifyVars>>

\* the 15 seconds of the recovery handler pass and the outer loop starts a
\* new session; self.seen_rows is left as it is
Recover ==
    /\ mpc = "recovering"
    /\ mpc' = "initializing"
    /\ last_recovery' = [called |-> TRUE, alert_history |-> alert_history,
                         evaluated |-> evaluated]
    /\ UNCHANGED <<storeVars, now, last_upsert, trending_result, concVars, last_cleanup, ingestVars, backfillVars, configVars,
                   seen_rows, trending_elapsed, notifyVars>>

\* an operator adds a watched tag
AddWatchedTag ==
    /\ \E tag \in Tags :
          /\ add_watched_tag(tag)
          /\ watch_requests' = watch_requests \cup {tag}
    /\ UNCHANGED <<storeVars, now, last_upsert, trending_result, concVars, last_cleanup, ingestVars, backfillVars, monitorVars,
                   notifyVars>>

\* an operator removes a watched tag
RemoveWatchedTag ==
    /\ \E tag \in watch_requests :
          /\ remove_watched_tag(tag)
          /\ watch_requests' = watch_requests \ {tag}
    /\ UNCHANGED <<storeVars, now, last_upsert, trending_result, concVars, last_cleanup, ingestVars, backfillVars, monitorVars,
                   notifyVars>>

InitMonitor ==
    /\ InitStore
    /\ now = 0
    /\ InitObservations
    /\ InitNoBackfill
    /\ watched_tags = {}
    /\ watch_requests = {}
    /\ is_active_column \in BOOLEAN
    /\ program \in {"core", "legacy"}
    /\ enabled \in BOOLEAN
    /\ mpc = "initializing"
    /\ seen_rows = {}
    /\ trending_elapsed = (program = "core")

NextMonitor ==
    \/ InitSession
    \/ ProcessRow
    \/ TrendingCheck
    \/ IntervalElapses
    \/ Recover
    \/ AddWatchedTag
    \/ RemoveWatchedTag

SpecMonitor == InitMonitor /\ [][NextMonitor]_vars

\* the monitor process keeps being scheduled: a pending step of its loop is
\* eventually taken
FairSpecMonitor ==
    /\ SpecMonitor
    /\ WF_vars(InitSession)
    /\ WF_vars(Recover)
    /\ WF_vars(IntervalElapses)
    /\ WF_vars(TrendingCheck)
    /\ WF_vars(ProcessRow)

-----------------------------------------------------------------------------
(* Ingestion of one feed row in detail: links of comments, titles, redirects *)

\* links of the feed rows: a deal page, bare or behind /redir, and the
\* /redir link of a comment on that deal
IngestUrls == {[path |-> "node/1", redir |-> FALSE],
               [path |-> "node/1", redir |-> TRUE],
               [path |-> "comment/7", redir |-> TRUE]}
\* text of the link of a row
RowTitles == {"", "Deal"}
IngestRows == {[url |-> u, type |-> "Deal", title |-> t] : u \in IngestUrls, t \in RowTitles}

\* h1 of the page the scraper ends on
ScrapedTitles == {"OzBargain", "Big Deal"}

\* the record _extract_deal_data builds on the page it ends on
PageData(id, final_url, title) ==
    [FullScrape(id, 30, 0, 0, FALSE, <<"gaming">>) EXCEPT !.url = final_url, !.title = title]

\* what scrape_deal_page may return for a url: an error record; the deal page
\* the link leads to, /redir followed; for the link of a comment the page of
\* its deal at the comment, or the page of the link itself when the redirect
\* is not followed
IngestResults(url) ==
    {[kind |-> "error"], [kind |-> "raised"], [kind |-> "closed"]} \cup
    (IF StartsWith(Spelling[url.path], Spelling["node/"])
     THEN {[kind |-> "ok",
            data |-> PageData(url.path, [path |-> url.path, redir |-> FALSE], t)] :
              t \in ScrapedTitles}
     ELSE {[kind |-> "ok",
            data |-> PageData("node/1", [path |-> "node/1#comment-7", redir |-> FALSE], t)] :
              t \in ScrapedTitles}
          \cup
          {[kind |-> "ok", data |-> PageData(url.path, url, t)] : t \in ScrapedTitles})

\* one feed row of a poll, observed
IngestRow ==
    \E row \in IngestRows :
       \E result \in IngestResults(ScrapedUrl(row.url)) :
          /\ ProcessRowWith(row, result)
          /\ last_event' = [called |-> TRUE, row |-> row, result |-> result,
                            before |-> live_deals, scraped |-> ScrapedUrl(row.url)]

\* a monitor that is polling, on a store that holds a watched tag
InitIngest ==
    /\ InitStore
    /\ now = 0
    /\ InitObservations
    /\ InitNoBackfill
    /\ watched_tags = Tags
    /\ watch_requests = Tags
    /\ is_active_column = TRUE
    /\ program \in {"core", "legacy"}
    /\ enabled = FALSE
    /\ mpc = "polling"
    /\ seen_rows = {}
    /\ trending_elapsed = FALSE

NextIngest == IngestRow

SpecIngest == InitIngest /\ [][NextIngest]_vars

-----------------------------------------------------------------------------
(* The rows of the feed over the sessions of one process, with a notifier
   that can fail *)

\* one feed row of a poll, what its scrape gave being remembered
FeedRow ==
    \E row \in FeedRows :
       \E result \in ScrapeResults(ScrapedUrl(row.url)) :
          /\ ProcessRowWith(row, result)
          /\ last_event' = [called |-> TRUE, row |-> row, result |-> result,
                            before |-> live_deals, scraped |-> ScrapedUrl(row.url)]

\* a monitor that starts, on a store that holds the watched tags, with a
\* notifier that is configured
InitFeed ==
    /\ InitStore
    /\ now = 0
    /\ InitObservations
    /\ InitNoBackfill
    /\ watched_tags = Tags
    /\ watch_requests = Tags
    /\ is_active_column = TRUE
    /\ program \in {"core", "legacy"}
    /\ enabled = TRUE
    /\ mpc = "initializing"
    /\ seen_rows = {}
    /\ trending_elapsed = FALSE

NextFeed == InitSession \/ FeedRow \/ Recover

SpecFeed == InitFeed /\ [][NextFeed]_vars

-----------------------------------------------------------------------------
(* The monitor loop when operations of the store fail *)

\* the operation of the store that raises during a step, if any
RowFaults == {"none", "upsert", "get_watched_tags", "has_alerted", "log_alert"}
TrendingFaults == {"none", "get_trending_deals", "has_alerted", "log_alert"}

\* messages of the exceptions
ClosedText == "Target page, context or browser has been closed"
LockedText == "database is locked"

AfterExceptionReraised(message) == IF program = "core" THEN "recovering" ELSE "exited"

\* where the loop is after an exception reached the handlers of run: the core
\* monitor re-raises the closed-browser message to its recovery handler, and
\* every other exception is printed or passed over
AfterException(message) ==
    IF message = ClosedText
    THEN IF program = "core" THEN "recovering" ELSE "broken"
    ELSE "polling"

\* the alert evaluation when every log_alert fails: log_alert prints the
\* exception and returns, so the messages are sent and no row is written
EvaluateNotLogged(due) ==
    LET todo == {pr \in due : ~has_alerted(alert_history, pr[1], pr[2])}
    IN  \E attempts \in OutcomesFor(todo) :
           /\ UNCHANGED <<alert_history, alert_timestamp>>
           /\ Observe(due, attempts)

\* the rows of the feed: two links to one deal
FaultRows == {r \in FeedRows : r.type = "Deal" /\ r.url.path = "node/1"}

\* a feed row is processed and an operation of the store may fail
FaultyRow ==
    /\ mpc = "polling"
    /\ \E row \in FaultRows : \E fault \in RowFaults :
          /\ row.url \notin seen_rows
          /\ seen_rows' = seen_rows \cup {row.url}
          /\ last_event' = [called |-> TRUE, path |-> "row", fault |-> fault]
          /\ \E deal_data \in Prepared(event_data(row),
                                      PageData(row.url.path, ScrapedUrl(row.url), "Deal")) :
                \/ /\ fault = "upsert"
                   /\ mpc' = AfterException(LockedText)
                   /\ UNCHANGED <<storeVars, last_upsert, notifyVars>>
                \/ /\ fault \in {"get_watched_tags", "has_alerted"}
                   /\ upsert_live_deal(deal_data, "live")
                   /\ UNCHANGED <<alert_history, alert_timestamp, notifyVars, mpc>>
                \/ /\ fault = "log_alert"
                   /\ upsert_live_deal(deal_data, "live")
                   /\ EvaluateNotLogged(PriorityDue(ResolvedId(deal_data), deal_data))
                   /\ UNCHANGED mpc
                \/ /\ fault = "none"
                   /\ upsert_live_deal(deal_data, "live")
                   /\ EvaluateAndAlert(PriorityDue(ResolvedId(deal_data), deal_data))
                   /\ UNCHANGED mpc
    /\ UNCHANGED <<now, trending_result, concVars, last_cleanup, last_resolve, last_log_alert, walk, last_parse,
                   backfillVars, configVars, trending_elapsed, last_recovery>>

\* the first n rows of a query result, as alert pairs
TrendingPairs(rows, n) == {<<rows[i].resolved_id, "trending">> : i \in 1..n}

\* the trending check runs and an operation of the store may fail; an
\* exception of has_alerted ends the loop over the candidates at some row
FaultyTrendingCheck ==
    /\ mpc = "polling"
    /\ trending_elapsed
    /\ trending_elapsed' = FALSE
    /\ \E fault \in TrendingFaults :
          /\ last_event' = [called |-> TRUE, path |-> "trending", fault |-> fault]
          /\ \E rows \in get_trending_deals(live_deals, now, TrendingWindowHours, -1, MinHeatScore) :
                \/ /\ fault = "get_trending_deals"
                   /\ mpc' = AfterException(LockedText)
                   /\ UNCHANGED <<alert_history, alert_timestamp, notifyVars>>
                \/ /\ fault = "has_alerted"
                   /\ \E n \in 0..(Len(rows) - 1) : EvaluateAndAlert(TrendingPairs(rows, n))
                   /\ mpc' = AfterException(LockedText)
                \/ /\ fault = "log_alert"
                   /\ EvaluateNotLogged(TrendingPairs(rows, Len(rows)))
                   /\ UNCHANGED mpc
                \/ /\ fault = "none"
                   /\ EvaluateAndAlert(TrendingPairs(rows, Len(rows)))
                   /\ UNCHANGED mpc
    /\ UNCHANGED <<live_deals, deal_snapshots, now, last_upsert, trending_result, concVars,
                   last_cleanup, last_resolve, last_log_alert, walk, last_parse, backfillVars, configVars,
                   seen_rows, last_recovery>>

\* the trending interval elapses
FaultyIntervalElapses ==
    /\ ~trending_elapsed
    /\ trending_elapsed' = TRUE
    /\ UNCHANGED <<storeVars, now, last_upsert, trending_result, concVars, last_cleanup,
                   ingestVars, backfillVars, configVars, mpc, seen_rows, last_recovery,
                   notifyVars>>

InitFaults ==
    /\ InitStore
    /\ now = 0
    /\ InitObservations
    /\ InitNoBackfill
    /\ watched_tags = Tags
    /\ watch_requests = Tags
    /\ is_active_column = TRUE
    /\ program \in {"core", "legacy"}
    /\ enabled = TRUE
    /\ mpc = "polling"
    /\ seen_rows = {}
    /\ trending_elapsed = FALSE

NextFaults == FaultyRow \/ FaultyTrendingCheck \/ FaultyIntervalElapses

SpecFaults == InitFaults /\ [][NextFaults]_vars

-----------------------------------------------------------------------------
(* Titles looked up in the store: resolve_node_id_by_title over stored rows *)

\* ids of stored rows: nodes, a comment, and a page whose id is its URL
StoredIds == {"node/1", "node/2", "comment/7", "https://www.ozbargain.com.au/deals"}
StoredTitles == {"Deal", "Big Deal", "50 off"}
AskedTitles == {"", "Deal", "deal", "5% off", "OzBargain"}

\* a page is stored under its id with its title
StoreTitled ==
    /\ \E id \in StoredIds : \E title \in StoredTitles :
          upsert_live_deal(PageData(id, id, title), "live")
    /\ UNCHANGED <<alert_history, alert_timestamp, now, trending_result, concVars, loopVars,
                   backfillVars, last_cleanup, ingestVars>>

\* resolve_node_id_by_title called on the store
Resolve ==
    /\ \E title \in AskedTitles :
          \E value \in resolve_node_id_by_title(live_deals, title) :
             last_resolve' = [called |-> TRUE, title |-> title, value |-> value]
    /\ UNCHANGED <<storeVars, now, last_upsert, trending_result, concVars, loopVars,
                   backfillVars, last_cleanup, last_event, last_log_alert, walk, last_parse>>

NextResolve == StoreTitled \/ Resolve

SpecResolve == Init /\ [][NextResolve]_vars

-----------------------------------------------------------------------------
(* Storage engine: cleanup_snapshots *)

\* hours_retention default
DefaultRetentionHours == 168
\* retention windows the cleanup is called with
RetentionChoices == {TickHours, DefaultRetentionHours}

SnapshotKept(snapshot, clock, hours) == snapshot.timestamp >= clock - hours

cleanup_snapshots_inclusive(snapshots, clock, hours) ==
    SelectSeq(snapshots, LAMBDA sn : sn.timestamp > clock - hours)

\* DELETE FROM deal_snapshots WHERE timestamp < datetime('now', '-N hours')
cleanup_snapshots(snapshots, clock, hours) ==
    SelectSeq(snapshots, LAMBDA sn : SnapshotKept(sn, clock, hours))

CleanupSnapshots ==
    /\ \E hours \in RetentionChoices :
          /\ deal_snapshots' = cleanup_snapshots(deal_snapshots, now, hours)
          /\ last_cleanup' = [called |-> TRUE, hours |-> hours, clock |-> now,
                              before |-> storeVars,
                              after |-> <<live_deals, deal_snapshots', alert_history,
                                          alert_timestamp>>]
    /\ UNCHANGED <<live_deals, alert_history, alert_timestamp, now, last_upsert, trending_result, concVars,
                   loopVars, backfillVars, ingestVars>>

\* the scrapes upserted between cleanups
RetentionData == {FullScrape(id, up, 0, 0, FALSE, <<>>) : id \in Ids, up \in {0, 2}}

\* the monitor loop upserts a deal
RetentionUpsert ==
    /\ \E data \in RetentionData : upsert_live_deal(data, "live")
    /\ UNCHANGED <<alert_history, alert_timestamp, now, trending_result, concVars, loopVars, backfillVars,
                   last_cleanup, ingestVars>>

NextRetention == RetentionUpsert \/ Tick \/ CleanupSnapshots

SpecRetention == Init /\ [][NextRetention]_vars

-----------------------------------------------------------------------------
(* The trending query on a database file that also holds snapshots *)

\* the tables of the file the query is run on
Store == [live_deals |-> live_deals, deal_snapshots |-> deal_snapshots]

\* the ids that have a snapshot
Snapshotted(store) ==
    {store.deal_snapshots[i].deal_id : i \in DOMAIN store.deal_snapshots}

trending_query_of_snapshotted(store, clock, hours, limit, min_score) ==
    get_trending_deals([id \in DOMAIN store.live_deals \cap Snapshotted(store) |->
                          store.live_deals[id]],
                       clock, hours, limit, min_score)

\* get_trending_deals on a file: its SELECT reads FROM live_deals alone
trending_query(store, clock, hours, limit, min_score) ==
    get_trending_deals(store.live_deals, clock, hours, limit, min_score)

\* the scrapes upserted: at the heat score asked for, and one below it
HeatData ==
    {FullScrape(id, 30, 0, 0, FALSE, <<>>) : id \in Ids}
    \cup {FullScrape("node/2", 0, 0, 0, FALSE, <<>>)}

HeatUpsert ==
    /\ \E data \in HeatData : upsert_live_deal(data, "live")
    /\ UNCHANGED <<alert_history, alert_timestamp, now, trending_result, concVars, loopVars,
                   backfillVars, last_cleanup, ingestVars>>

\* a caller runs get_trending_deals on the file and looks at the result
QueryStore ==
    /\ \E hours \in QueryHours, limit \in {-1}, min_score \in {MinHeatScore} :
         \E rows \in trending_query(Store, now, hours, limit, min_score) :
            trending_result' = [called |-> TRUE, hours |-> hours, limit |-> limit,
                                min_score |-> min_score, rows |-> rows]
    /\ UNCHANGED <<storeVars, now, last_upsert, concVars, loopVars, backfillVars,
                   last_cleanup, ingestVars>>

NextHeat == HeatUpsert \/ Tick \/ CleanupSnapshots \/ QueryStore

SpecHeat == Init /\ [][NextHeat]_vars

-----------------------------------------------------------------------------
(* Storage engine: _initialize_db, run by every new StorageManager *)

\* the tables _initialize_db drops
LegacyTables == {"activities", "deal_tags", "deals", "users"}

\* a table of the file after DROP TABLE IF EXISTS of the legacy tables and
\* CREATE TABLE IF NOT EXISTS of the current ones
TableAfterOpen(name, table, empty) == IF name \in LegacyTables THEN empty ELSE table

\* a process opens the store: _initialize_db and its cleanup_snapshots()
OpenStore ==
    /\ live_deals' = TableAfterOpen("live_deals", live_deals, [x \in {} |-> NoRow])
    /\ alert_history' = TableAfterOpen("alert_history", alert_history, {})
    /\ alert_timestamp' = TableAfterOpen("alert_history", alert_timestamp, NoTimestamps)
    /\ deal_snapshots' = cleanup_snapshots(TableAfterOpen("deal_snapshots", deal_snapshots, <<>>),
                                           now, DefaultRetentionHours)
    /\ last_cleanup' = [called |-> TRUE, hours |-> DefaultRetentionHours, clock |-> now,
                        before |-> storeVars,
                        after |-> <<live_deals', deal_snapshots', alert_history',
                                    alert_timestamp'>>]
    /\ UNCHANGED <<now, last_upsert, trending_result, concVars, loopVars, backfillVars,
                   ingestVars>>

\* the pair the alert operations of this specification are about
StorePairs == {<<"node/1", "priority">>}

StoreLogAlert == LogAlertOf(StorePairs)

\* the scrapes upserted
StoreData == {FullScrape(id, 2, 0, 0, FALSE, <<>>) : id \in Ids}

StoreUpsert ==
    /\ \E data \in StoreData : upsert_live_deal(data, "live")
    /\ UNCHANGED <<alert_history, alert_timestamp, now, trending_result, concVars, loopVars,
                   backfillVars, last_cleanup, ingestVars>>

NextStore ==
    \/ StoreUpsert
    \/ Tick
    \/ CleanupSnapshots
    \/ OpenStore
    \/ StoreLogAlert

\* the store used over time through upserts, cleanups, alert operations and
\* new storage handles
SpecStore == Init /\ [][NextStore]_vars

-----------------------------------------------------------------------------
(* Backfill of a user's activity: fetch_user_activity.py *)

\* items of the stream explored per run
MaxItems == 2
\* milliseconds the clock is followed over
MaxMs == 2

\* what the page of an item gives: the text of the user's comment; no comment
\* text on an item whose feed text says "posted"; or neither
ItemKinds == {"comment", "post", "bare"}
ActivityItems == [kind : ItemKinds, id : Ids]
Streams == [1..MaxItems -> ActivityItems]

\* the activity_ref, type and content process_item derives for an item from
\* its fast scrape at a clock value
ActivityOf(item, data, ms) ==
    IF item.kind = "comment"
    THEN [ref |-> <<"comment", item.id, 0>>, type |-> "comment", content |-> "comment text"]
    ELSE IF item.kind = "post"
    THEN [ref |-> <<"post", data.id, 0>>, type |-> "post", content |-> data.title]
    ELSE [ref |-> <<"unknown", "", ms>>, type |-> "comment", content |-> "no content"]

\* INSERT OR REPLACE INTO user_activity, activity_ref being UNIQUE
log_user_activity(table, user_id, deal_id, activity_ref, content, activity_type) ==
    [r \in DOMAIN table \cup {activity_ref} |->
        IF r = activity_ref
        THEN [user_id |-> user_id, deal_id |-> deal_id, content |-> content,
              activity_type |-> activity_type]
        ELSE table[r]]

\* what can happen inside one process_item: an exception while its scraper
\* or storage handle is created (outside the try), an error record from the
\* scrape, an exception of the upsert, the row archived, or an exception
\* inside log_user_activity, which that method prints and swallows
TaskOutcomes == {"init_raised", "scrape_error", "upsert_raised", "archived", "archive_failed"}

\* the value the future of a task ends with
FutureOf(outcome) ==
    IF outcome = "init_raised" THEN "raised"
    ELSE IF outcome \in {"scrape_error", "upsert_raised"} THEN "false"
    ELSE "true"

\* process_item for item i of the stream, run by a pool thread
process_item(i) ==
    /\ bpc \in {"discovering", "waiting"}
    /\ futures[i] = "queued"
    /\ \E outcome \in TaskOutcomes :
          LET item == activity_stream[i]
              data == scrape_deal_fast(item.id, FALSE, <<>>)
              act == ActivityOf(item, data, clock_ms)
          IN  /\ futures' = [futures EXCEPT ![i] = FutureOf(outcome)]
              /\ IF outcome \in {"archived", "archive_failed"}
                 THEN WriteUpsert(data, "manual_fetch",
                                  SelectExisting(live_deals, ResolvedId(data)))
                 ELSE UNCHANGED <<live_deals, deal_snapshots>>
              /\ IF outcome = "archived"
                 THEN /\ user_activity' = log_user_activity(user_activity, "user", data.id,
                                                            act.ref, act.content, act.type)
                      /\ archived' = archived \cup {i}
                 ELSE UNCHANGED <<user_activity, archived>>
    /\ UNCHANGED <<alert_history, alert_timestamp, now, last_upsert, trending_result, concVars, loopVars, last_cleanup, ingestVars,
                   activity_stream, bpc, completed_count, run, clock_ms, first_run>>

ProcessItem == \E i \in DOMAIN futures : process_item(i)

\* the generator yields the next item and its task is submitted to the pool;
\* after the last one the caller waits for the tasks
Submit ==
    /\ bpc = "discovering"
    /\ \E i \in DOMAIN futures :
          /\ futures[i] = "none"
          /\ \A j \in DOMAIN futures : j < i => futures[j] # "none"
          /\ futures' = [futures EXCEPT ![i] = "queued"]
          /\ bpc' = IF i = Len(activity_stream) THEN "waiting" ELSE "discovering"
    /\ UNCHANGED <<storeVars, now, last_upsert, trending_result, concVars, loopVars, last_cleanup, ingestVars,
                   user_activity, activity_stream, completed_count, run, clock_ms, archived,
                   first_run>>

\* the as_completed loop and the end of the with block: every task has
\* finished; f.result() of a task that raised raises in the caller, which
\* leaves fetch_user_activity before the final print
Report ==
    /\ bpc = "waiting"
    /\ \A i \in DOMAIN futures : futures[i] \in {"true", "false", "raised"}
    /\ IF \E i \in DOMAIN futures : futures[i] = "raised"
       THEN bpc' = "failed" /\ UNCHANGED completed_count
       ELSE /\ bpc' = "reported"
            /\ completed_count' = Cardinality({i \in DOMAIN futures : futures[i] = "true"})
    /\ UNCHANGED <<storeVars, now, last_upsert, trending_result, concVars, loopVars, last_cleanup, ingestVars,
                   user_activity, activity_stream, futures, run, clock_ms, archived, first_run>>

\* the backfill is run a second time over the same stream, at a later time
SecondRun ==
    /\ bpc \in {"reported", "failed"}
    /\ run = 1
    /\ clock_ms < MaxMs
    /\ run' = 2
    /\ clock_ms' = clock_ms + 1
    /\ bpc' = "discovering"
    /\ futures' = [i \in DOMAIN futures |-> "none"]
    /\ completed_count' = 0
    /\ archived' = {}
    /\ first_run' = [called |-> TRUE, rows |-> user_activity, archived |-> archived,
                     pc |-> bpc]
    /\ UNCHANGED <<storeVars, now, last_upsert, trending_result, concVars, loopVars, last_cleanup, ingestVars,
                   user_activity, activity_stream>>

\* a millisecond passes
TickMs ==
    /\ clock_ms < MaxMs
    /\ clock_ms' = clock_ms + 1
    /\ UNCHANGED <<storeVars, now, last_upsert, trending_result, concVars, loopVars, last_cleanup, ingestVars,
                   user_activity, activity_stream, futures, bpc, completed_count, run,
                   archived, first_run>>

InitBackfill ==
    /\ InitStore
    /\ now = 0
    /\ InitObservations
    /\ InitNoMonitor
    /\ user_activity = <<>>
    /\ activity_stream \in Streams
    /\ futures = [i \in 1..MaxItems |-> "none"]
    /\ bpc = "discovering"
    /\ completed_count = 0
    /\ run = 1
    /\ clock_ms = 0
    /\ archived = {}
    /\ first_run = [called |-> FALSE]

NextBackfill == Submit \/ ProcessItem \/ Report \/ SecondRun \/ TickMs

SpecBackfill == InitBackfill /\ [][NextBackfill]_vars

-----------------------------------------------------------------------------
(* One backfill task in detail: the fast scrape of a URL and what the task
   does with its result *)

Digits == {"0", "1", "2", "3", "4", "5", "6", "7", "8", "9"}

\* the string spelled by a sequence of characters
Spelled(text) == CHOOSE str \in DOMAIN Spelling : Spelling[str] = text

\* the positions of text where node/ and a digit start
NodeMatches(text) ==
    {i \in 1..Len(text) :
        /\ i + 5 <= Len(text)
        /\ SubSeq(text, i, i + 4) = Spelling["node/"]
        /\ text[i + 5] \in Digits}

\* the end of the run of digits that starts at position i
RECURSIVE DigitsEnd(_, _)
DigitsEnd(text, i) ==
    IF i < Len(text) /\ text[i + 1] \in Digits THEN DigitsEnd(text, i + 1) ELSE i

\* deal_id of the fast scrape: re.search(r'node/(\d+)', r.url), else "unknown"
fast_deal_id(final_url) ==
    LET text == Spelling[final_url]
    IN  IF NodeMatches(text) = {} THEN "unknown"
        ELSE LET i == CHOOSE k \in NodeMatches(text) : \A m \in NodeMatches(text) : k <= m
             IN  Spelled(SubSeq(text, i, DigitsEnd(text, i + 5)))

\* paths of the links of a user's activity
FastUrls == {"node/1", "node/2", "comment/7"}

\* what the HTTP session gives for a URL: an exception of the request, an
\* error status, or a page at the URL reached after the redirects, whose
\* title element may have no string
Responses(url) ==
    {[kind |-> "failed", text |-> "Connection Error"],
     [kind |-> "failed", text |-> "404 Client Error"]} \cup
    {[kind |-> "page", final_url |-> f, parsed |-> ok] :
        f \in (IF url = "comment/7" THEN {"node/1#comment-7", "comment/7"} ELSE {url}),
        ok \in BOOLEAN}

\* scrape_deal_fast of a URL for a response: the except clause turns every
\* exception into an error record with the requested URL
fast_result(url, response) ==
    IF response.kind = "failed"
    THEN [kind |-> "error", error |-> response.text, url |-> url]
    ELSE IF ~response.parsed
    THEN [kind |-> "error", error |-> "'NoneType' object has no attribute 'replace'", url |-> url]
    ELSE [kind |-> "ok",
          data |-> [scrape_deal_fast(fast_deal_id(response.final_url), FALSE, <<>>)
                      EXCEPT !.url = response.final_url]]

\* process_item for an item of the given kind at a URL.  The storage handle
\* it opens runs cleanup_snapshots, which deletes nothing here as no hour
\* passes in this specification.
FastTask ==
    /\ \E url \in FastUrls : \E kind \in ItemKinds : \E response \in Responses(url) :
          LET result == fast_result(url, response)
              seen(returned) == [called |-> TRUE, url |-> url, response |-> response,
                                 result |-> result, before |-> live_deals,
                                 returned |-> returned]
          IN  \/ /\ result.kind = "error"
                 /\ last_event' = seen(FALSE)
                 /\ UNCHANGED <<live_deals, deal_snapshots, user_activity>>
              \/ /\ result.kind = "ok"
                 /\ Len(deal_snapshots) < MaxSnapshots
                 /\ WriteUpsert(result.data, "manual_fetch",
                                SelectExisting(live_deals, ResolvedId(result.data)))
                 /\ \E logged \in BOOLEAN :
                       LET act == ActivityOf([kind |-> kind, id |-> url], result.data, clock_ms)
                       IN  /\ user_activity' =
                                IF logged
                                THEN log_user_activity(user_activity, "user", result.data.id,
                                                       act.ref, act.content, act.type)
                                ELSE user_activity
                           /\ last_event' = seen(TRUE)
    /\ UNCHANGED <<alert_history, alert_timestamp, now, last_upsert, trending_result, concVars,
                   loopVars, last_cleanup, last_resolve, last_log_alert, walk, last_parse, activity_stream,
                   futures, bpc, completed_count, run, clock_ms, archived, first_run>>

InitFast ==
    /\ InitStore
    /\ now = 0
    /\ InitObservations
    /\ InitNoMonitor
    /\ user_activity = <<>>
    /\ activity_stream = <<>>
    /\ futures = <<>>
    /\ bpc = "discovering"
    /\ completed_count = 0
    /\ run = 1
    /\ clock_ms = 0
    /\ archived = {}
    /\ first_run = [called |-> FALSE]

NextFast == FastTask

SpecFast == InitFast /\ [][NextFast]_vars

-----------------------------------------------------------------------------
(* The walk over a user's activity page: OzBargainScraper.get_user_activity *)

\* OzBargainScraper.base_url
base_url == "https://www.ozbargain.com.au"

\* items the page shows at most
MaxDom == 2
\* values of document.body.scrollHeight
Heights == {1, 2}
\* the href of the last link of an activity item; None when it has no href
Hrefs == {None, "/node/1", "/node/2", "https://www.ozbargain.com.au/node/1"}
\* the values of max_items
WalkLimits == 0..MaxItems

\* self.base_url + href if href.startswith("/") else href
full_url(href) ==
    IF StartsWith(Spelling[href], Spelling["/"])
    THEN Spelled(Spelling[base_url] \o Spelling[href])
    ELSE href

\* the for loop over the items of the page: an item without href is skipped,
\* one whose url was seen is skipped, the others are yielded until count
\* reaches max_items
RECURSIVE YieldItems(_, _)
YieldItems(w, divs) ==
    IF divs = <<>> \/ w.count >= w.max_items THEN w
    ELSE LET href == Head(divs)
         IN  IF href = None \/ full_url(href) \in w.items_seen
             THEN YieldItems(w, Tail(divs))
             ELSE YieldItems([w EXCEPT !.items_seen = @ \cup {full_url(href)},
                                       !.count = @ + 1,
                                       !.yielded = Append(@, full_url(href))],
                             Tail(divs))

\* the pages a scroll or a click can leave: the same items, or one more
GrownDoms(dom) ==
    {dom} \cup (IF Len(dom) < MaxDom THEN {Append(dom, h) : h \in Hrefs} ELSE {})

\* the profile loads or not; while count < max_items is tested a first time
WalkStart ==
    /\ walk.pc = "idle"
    /\ \E max_items \in WalkLimits, loads \in BOOLEAN, height \in Heights,
          dom \in GrownDoms(<<>>) :
          walk' = IF ~loads THEN [walk EXCEPT !.pc = "done", !.max_items = max_items]
                  ELSE [walk EXCEPT !.pc = IF 0 < max_items THEN "items" ELSE "done",
                                    !.max_items = max_items,
                                    !.last_height = height,
                                    !.dom = dom]
    /\ UNCHANGED <<storeVars, now, last_upsert, trending_result, concVars, loopVars,
                   backfillVars, last_cleanup, last_event, last_resolve, last_log_alert,
                   last_parse>>

\* 1. Yield visible items; locator.all() raises when the browser is closed
WalkItems ==
    /\ walk.pc = "items"
    /\ \E closed \in BOOLEAN :
          walk' = IF closed THEN [walk EXCEPT !.pc = "raised"]
                  ELSE LET w == YieldItems(walk, walk.dom)
                       IN  [w EXCEPT !.pc = IF w.count >= w.max_items THEN "done"
                                            ELSE "scroll"]
    /\ UNCHANGED <<storeVars, now, last_upsert, trending_result, concVars, loopVars,
                   backfillVars, last_cleanup, last_event, last_resolve, last_log_alert,
                   last_parse>>

\* what the try block of the scroll step can meet: an exception whose text
\* has "closed", another exception, or a height; then, past five retries, a
\* 'next' control that is visible, one that is not, or an exception of it
ScrollOutcomes ==
    {[kind |-> k, new_height |-> 0, next |-> "absent"] : k \in {"closed", "error"}}
    \cup [kind : {"height"}, new_height : Heights, next : {"visible", "absent", "error"}]

\* 2. Scroll and Wait, and while count < max_items tested again
WalkScroll ==
    /\ walk.pc = "scroll"
    /\ \E o \in ScrollOutcomes, dom \in GrownDoms(walk.dom), height \in Heights :
          walk' =
             IF o.kind = "closed" THEN [walk EXCEPT !.pc = "done"]
             ELSE IF o.kind = "error" THEN [walk EXCEPT !.pc = "items", !.dom = dom]
             ELSE IF o.new_height = walk.last_height
             THEN LET retries == walk.retries + 1
                  IN  IF retries > 5 /\ o.next = "visible"
                      THEN [walk EXCEPT !.pc = "items", !.retries = 0,
                                        !.last_height = height, !.dom = dom]
                      ELSE IF retries >= 10
                      THEN [walk EXCEPT !.pc = "done", !.retries = retries, !.dom = dom]
                      ELSE [walk EXCEPT !.pc = "items", !.retries = retries, !.dom = dom]
             ELSE [walk EXCEPT !.pc = "items", !.retries = 0,
                               !.last_height = o.new_height, !.dom = dom]
    /\ UNCHANGED <<storeVars, now, last_upsert, trending_result, concVars, loopVars,
                   backfillVars, last_cleanup, last_event, last_resolve, last_log_alert,
                   last_parse>>

NextWalk == WalkStart \/ WalkItems \/ WalkScroll

SpecWalk == Init /\ [][NextWalk]_vars

\* the consumer's for loop asks for the next item as long as there is one
FairSpecWalk == SpecWalk /\ WF_vars(NextWalk)

-----------------------------------------------------------------------------
(* Relative times of the feed: LiveMonitor.parse_relative_time

   A datetime is its proleptic day number (1 is 0001-01-01) and the second of
   that day; a timedelta is a number of days and a second of the day, as
   CPython keeps them. *)

\* the day number of the day the clock starts on (2026-11-05)
EpochDay == 739925

\* datetime.now() when the clock shows the given hour
NowAt(clock) == [day |-> EpochDay + (clock \div 24), sec |-> (clock % 24) * 3600]

Whitespace == {" ", "\t", "\n"}

\* str.strip
RECURSIVE LStrip(_)
LStrip(text) ==
    IF text # <<>> /\ Head(text) \in Whitespace THEN LStrip(Tail(text)) ELSE text

RECURSIVE RStrip(_)
RStrip(text) ==
    IF text # <<>> /\ text[Len(text)] \in Whitespace
    THEN RStrip(SubSeq(text, 1, Len(text) - 1))
    ELSE text

Strip(text) == RStrip(LStrip(text))

\* str.lower
LowerText(text) == [i \in DOMAIN text |-> Lower(text[i])]

\* the length of the run of characters that are not whitespace at the head
RECURSIVE TokenLen(_)
TokenLen(text) ==
    IF text = <<>> \/ Head(text) \in Whitespace THEN 0 ELSE 1 + TokenLen(Tail(text))

\* str.split(): the runs of characters between whitespace
RECURSIVE Split(_)
Split(text) ==
    LET rest == LStrip(text)
    IN  IF rest = <<>> THEN <<>>
        ELSE <<SubSeq(rest, 1, TokenLen(rest))>>
                \o Split(SubSeq(rest, TokenLen(rest) + 1, Len(rest)))

DigitValue ==
    "0" :> 0 @@ "1" :> 1 @@ "2" :> 2 @@ "3" :> 3 @@ "4" :> 4 @@
    "5" :> 5 @@ "6" :> 6 @@ "7" :> 7 @@ "8" :> 8 @@ "9" :> 9

\* digits, with single underscores allowed between them
IsNumeral(text) ==
    /\ text # <<>>
    /\ \A i \in DOMAIN text : text[i] \in Digits \cup {"_"}
    /\ \A i \in DOMAIN text :
          text[i] = "_" => /\ i > 1 /\ i < Len(text)
                           /\ text[i - 1] \in Digits /\ text[i + 1] \in Digits

RECURSIVE NumeralValue(_, _)
NumeralValue(text, acc) ==
    IF text = <<>> THEN acc
    ELSE IF Head(text) = "_" THEN NumeralValue(Tail(text), acc)
    ELSE NumeralValue(Tail(text), 10 * acc + DigitValue[Head(text)])

\* int(token): the value, or ValueError
int(token) ==
    LET signed == token # <<>> /\ Head(token) \in {"+", "-"}
        digits == IF signed THEN Tail(token) ELSE token
    IN  IF ~IsNumeral(digits) THEN [raised |-> TRUE, val |-> 0]
        ELSE [raised |-> FALSE,
              val |-> IF signed /\ Head(token) = "-" THEN 0 - NumeralValue(digits, 0)
                      ELSE NumeralValue(digits, 0)]

\* timedelta(seconds=val), (minutes=val), (hours=val), (days=val), or no unit
\* found: OverflowError past 999999999 days
timedelta(val, unit) ==
    LET d == IF HasSub(unit, <<"s", "e", "c">>)
             THEN [days |-> val \div 86400, seconds |-> val % 86400]
             ELSE IF HasSub(unit, <<"m", "i", "n">>)
             THEN [days |-> val \div 1440, seconds |-> (val % 1440) * 60]
             ELSE IF HasSub(unit, <<"h", "o", "u", "r">>)
             THEN [days |-> val \div 24, seconds |-> (val % 24) * 3600]
             ELSE IF HasSub(unit, <<"d", "a", "y">>)
             THEN [days |-> val, seconds |-> 0]
             ELSE [days |-> 0, seconds |-> 0]
    IN  IF d.days > 999999999 \/ d.days < -999999999 THEN [raised |-> TRUE]
        ELSE [raised |-> FALSE, days |-> d.days, seconds |-> d.seconds]

\* datetime - timedelta: OverflowError outside the years 1..9999
Minus(at, delta) ==
    LET borrow == IF at.sec < delta.seconds THEN 1 ELSE 0
        day == at.day - delta.days - borrow
        sec == at.sec - delta.seconds + 86400 * borrow
    IN  IF day < 1 \/ day > 3652059 THEN [raised |-> TRUE]
        ELSE [raised |-> FALSE, value |-> [day |-> day, sec |-> sec]]

\* parse_relative_time: every exception of the body ends in the bare except,
\* which returns datetime.now()
ParseText(text, at) ==
    LET parts == Split(text)
    IN  IF HasSub(text, <<"n", "o", "w">>) THEN at
        ELSE IF Len(parts) < 2 THEN at
        ELSE IF int(parts[1]).raised THEN at
        ELSE LET delta == timedelta(int(parts[1]).val, parts[2])
             IN  IF delta.raised THEN at
                 ELSE IF Minus(at, delta).raised THEN at
                 ELSE Minus(at, delta).value

parse_relative_time_case_kept(time_str, at) == ParseText(Strip(Spelling[time_str]), at)

\* time_str.strip().lower(), then the rest of the body
parse_relative_time(time_str, at) == ParseText(LowerText(Strip(Spelling[time_str])), at)

\* the texts of the first cell of a feed row that are parsed
TimeTexts ==
    {"now", "Now", "just now", "", " ", "5", "soon", "x min", "5 weeks", "5 min",
     "5 minutes ago", "0 min", "3 sec", "90 sec", "1 hour", "2 hours", " 2 Hours ",
     "25 hours", "1 day", "2 days ago", "-1 min", "+5 min", "1_0 min", "5.5 min", "5min",
     "3 unknown", "800000 days", "18000000 hours", "1000000000 days"}

\* a feed row's time is parsed
ParseRelativeTime ==
    /\ \E time_str \in TimeTexts :
          last_parse' = [called |-> TRUE, time_str |-> time_str, at |-> NowAt(now),
                         value |-> parse_relative_time(time_str, NowAt(now))]
    /\ UNCHANGED <<storeVars, now, last_upsert, trending_result, concVars, loopVars,
                   backfillVars, last_cleanup, last_event, last_resolve, last_log_alert,
                   walk>>

NextParse == ParseRelativeTime \/ Tick

SpecParse == Init /\ [][NextParse]_vars

-----------------------------------------------------------------------------
(* Properties of the sequential store (checked under Spec) *)

\* the row the last upsert wrote or replaced
LastRow == live_deals[ResolvedId(last_upsert.data)]

\* what the guard is specified to store for an incoming value and a stored one
Guarded(incoming, stored) == IF incoming = 0 /\ stored > 0 THEN stored ELSE incoming

\* C1: an upsert onto a stored row keeps the stored upvotes when the incoming
\* upvotes is 0 and the stored one is positive, and stores every nonzero
\* incoming upvotes as it is (a lower one too); the same holds for
\* comment_count, each counter being decided on its own values only.
C1_IntegrityGuard ==
    (last_upsert.called /\ last_upsert.prior.present) =>
        /\ LastRow.upvotes =
              Guarded(last_upsert.data.upvotes, last_upsert.prior.upvotes)
        /\ LastRow.comment_count =
              Guarded(last_upsert.data.comment_count, last_upsert.prior.comment_count)

\* an upsert that kept the stored upvotes (incoming 0) and, in the same call,
\* replaced the stored comment_count by a lower nonzero one
C1_Witness ==
    /\ last_upsert.called /\ last_upsert.prior.present
    /\ last_upsert.data.upvotes = 0 /\ last_upsert.prior.upvotes = 2
    /\ LastRow.upvotes = 2
    /\ last_upsert.data.comment_count = 1 /\ last_upsert.prior.comment_count = 2
    /\ LastRow.comment_count = 1

\* C2 as stated: none of upvotes, downvotes and comment_count of a row goes
\* from a positive value back to 0.
C2_Original ==
    [][\A id \in DOMAIN live_deals :
          /\ live_deals[id].upvotes > 0 => live_deals'[id].upvotes # 0
          /\ live_deals[id].downvotes > 0 => live_deals'[id].downvotes # 0
          /\ live_deals[id].comment_count > 0 => live_deals'[id].comment_count # 0]_vars

\* C2 as amended: neither upvotes nor comment_count of a row goes from a
\* positive value back to 0, whatever sequence of live and backfill upserts
\* follows, and the row itself stays in the table; downvotes is not guarded.
C2_GuardedCountersStayPositive ==
    [][\A id \in DOMAIN live_deals :
          /\ id \in DOMAIN live_deals'
          /\ live_deals[id].upvotes > 0 => live_deals'[id].upvotes > 0
          /\ live_deals[id].comment_count > 0 => live_deals'[id].comment_count > 0]_vars

\* a backfill upsert (all counters 0) over a row whose three counters were
\* positive: the two guarded counters are kept, downvotes is reset
C2_Witness ==
    /\ last_upsert.called /\ last_upsert.source = "manual_fetch"
    /\ last_upsert.prior.present
    /\ last_upsert.prior.upvotes > 0 /\ last_upsert.prior.comment_count > 0
    /\ last_upsert.prior.downvotes > 0
    /\ LastRow.upvotes = last_upsert.prior.upvotes
    /\ LastRow.comment_count = last_upsert.prior.comment_count
    /\ LastRow.downvotes = 0

\* C4: an upsert appends exactly one snapshot, for the upserted resolved_id,
\* whose upvotes and comment_count are the ones the same upsert wrote to the
\* live_deals row.
C4_OneSnapshotPostGuard ==
    last_upsert.called =>
        /\ Len(deal_snapshots) = Len(last_upsert.priorSnapshots) + 1
        /\ SubSeq(deal_snapshots, 1, Len(last_upsert.priorSnapshots)) =
              last_upsert.priorSnapshots
        /\ LET snap == deal_snapshots[Len(deal_snapshots)]
           IN  /\ snap.deal_id = ResolvedId(last_upsert.data)
               /\ snap.upvotes = LastRow.upvotes
               /\ snap.comment_count = LastRow.comment_count
               /\ snap.timestamp = LastRow.timestamp

\* an upsert whose incoming counters were 0 and whose snapshot carries the
\* kept positive values
C4_Witness ==
    /\ last_upsert.called
    /\ last_upsert.data.upvotes = 0 /\ last_upsert.data.comment_count = 0
    /\ Len(deal_snapshots) = 2
    /\ deal_snapshots[2].upvotes > 0 /\ deal_snapshots[2].comment_count > 0

-----------------------------------------------------------------------------
(* Properties of the trending query (checked under SpecTrending) *)

\* the stored deals a call with these arguments is specified to return
Eligible(hours, min_score) ==
    {id \in DOMAIN live_deals :
        /\ now - live_deals[id].timestamp < hours
        /\ live_deals[id].source = "live"
        /\ live_deals[id].is_expired = FALSE
        /\ 2 * live_deals[id].upvotes + live_deals[id].comment_count >= min_score}

ReturnedIds == {trending_result.rows[i].resolved_id : i \in DOMAIN trending_result.rows}

C10_TrendingOrderAndLimit ==
    trending_result.called =>
        LET rows == trending_result.rows
            want == Eligible(trending_result.hours, trending_result.min_score)
            heat(id) == 2 * live_deals[id].upvotes + live_deals[id].comment_count
        IN  /\ \A i, j \in DOMAIN rows : i < j => rows[i].heat_score >= rows[j].heat_score
            /\ trending_result.limit <= 0 => want \subseteq ReturnedIds
            /\ trending_result.limit > 0 =>
                 /\ Len(rows) <= trending_result.limit
                 /\ \A out \in want \ ReturnedIds : \A i \in DOMAIN rows :
                        heat(out) <= rows[i].heat_score

\* three deals match, of heat scores 100, 25 and 25; a query with limit 2
\* returned the deal of heat 100 first and left one deal of heat 25 out
C10_Witness ==
    /\ trending_result.called /\ trending_result.limit = 2
    /\ Cardinality(Eligible(trending_result.hours, trending_result.min_score)) = 3
    /\ Len(trending_result.rows) = 2
    /\ trending_result.rows[1].heat_score = 100
    /\ trending_result.rows[2].heat_score = 25


-----------------------------------------------------------------------------
(* Properties of the monitor loop and the notifier (checked under
   SpecMonitor and FairSpecMonitor) *)

C6_Original ==
    \A pr \in Pairs :
        (failures[pr] > 0 /\ delivered[pr] = 0) => pr \notin alert_history

\* whether the deal of a pair is eligible for the alert of the pair
AlertEligible(pr) ==
    /\ pr[1] \in DOMAIN live_deals
    /\ IF pr[2] = "priority"
       THEN /\ ~live_deals[pr[1]].is_expired
            /\ ~get_watched_tags.raised
            /\ Matches(live_deals[pr[1]], get_watched_tags.tags) # {}
       ELSE TrendingWhere(live_deals[pr[1]], now, TrendingWindowHours, MinHeatScore)

\* C7 (as stated): once a delivery for a <<deal, alert type>> has failed, a
\* notification for the pair is eventually delivered and recorded, unless the
\* deal stops being eligible or the monitor leaves its polling loop.
C7_Original ==
    \A pr \in Pairs :
        (failures[pr] > 0) ~>
            \/ delivered[pr] >= 1 /\ pr \in alert_history
            \/ ~AlertEligible(pr)
            \/ mpc # "polling"

\* C8 (as stated): the notifier returns true for a message that was delivered
\* or accepted by the mock, false for one whose delivery failed, and nothing
\* else.
C8_Original ==
    \A r \in notifier_returns :
        r[2] = IF r[1] = "failed" THEN "False" ELSE "True"

-----------------------------------------------------------------------------
(* Properties of session recovery (checked under SpecMonitor) *)

\* C11 (as stated): the monitor loop has no terminal state: a session-fatal
\* error never leaves it exited, or polling on a browser that is gone
\* without a recovery.
C11_Original == mpc \notin {"exited", "broken"}

\* C12 (as stated): when the loop re-enters initializing after a recovery,
\* the set of seen rows is empty.
C12_Original == (mpc = "initializing" /\ last_recovery.called) => seen_rows = {}

\* C13: while the monitor is recovering nothing is written to live_deals,
\* deal_snapshots or alert_history, the step that ends the backoff leaves the
\* watched tags alone too, and no notification is delivered again for a pair
\* that was in the alert history at the last recovery.
C13_RecoveryKeepsStore ==
    [][/\ mpc = "recovering" => UNCHANGED <<live_deals, deal_snapshots, alert_history, alert_timestamp>>
       /\ (mpc = "recovering" /\ mpc' = "initializing") => UNCHANGED watched_tags
       /\ last_recovery.called =>
             \A pr \in last_recovery.alert_history :
                 delivered'[pr] = delivered[pr] /\ pr \in alert_history'
      ]_vars

\* an alert recorded before a crash was evaluated again after the recovery,
\* and its one notification stayed the only one
C13_Witness ==
    /\ last_recovery.called
    /\ live_deals # <<>>
    /\ \E pr \in last_recovery.alert_history :
          /\ evaluated[pr] > last_recovery.evaluated[pr]
          /\ delivered[pr] = 1
          /\ pr \in alert_history

-----------------------------------------------------------------------------
(* Properties of repeated processing (checked under Spec) *)

\* the snapshots of a deal in a snapshot table
SnapshotsFor(snapshots, rid) == {i \in DOMAIN snapshots : snapshots[i].deal_id = rid}

\* the last upsert handed in what the stored row already held: the same
\* scrape result processed again
SameAgain ==
    /\ last_upsert.called
    /\ last_upsert.prior.present
    /\ last_upsert.prior.upvotes = last_upsert.data.upvotes
    /\ last_upsert.prior.downvotes = last_upsert.data.downvotes
    /\ last_upsert.prior.comment_count = last_upsert.data.comment_count

-----------------------------------------------------------------------------
(* Properties of the backfill (checked under SpecBackfill) *)

\* every task of the run archived its item
AllArchived(done) == done = DOMAIN futures

\* C15 (as stated): when a second run over the same stream, in which every
\* task archived its item as in the first run, has reported, user_activity
\* holds the activity_refs it held after the first run and no other.
C15_Original ==
    (/\ run = 2
     /\ bpc = "reported"
     /\ first_run.pc = "reported"
     /\ AllArchived(first_run.archived)
     /\ AllArchived(archived)) =>
        DOMAIN user_activity = DOMAIN first_run.rows

\* C16 (as stated): once every submitted task of a run has finished, the
\* final count is reported, and it is the number of tasks that archived
\* their item.
C16_Original ==
    (/\ bpc \notin {"idle", "discovering", "waiting"}
     /\ \A i \in DOMAIN futures : futures[i] \in {"true", "false", "raised"}) =>
        /\ bpc = "reported"
        /\ completed_count = Cardinality(archived)

-----------------------------------------------------------------------------
(* Properties of the retention cleanup (checked under SpecRetention) *)

\* how often a snapshot occurs in a snapshot table
Occurrences(snapshots, sn) == Cardinality({i \in DOMAIN snapshots : snapshots[i] = sn})

-----------------------------------------------------------------------------
(* Properties of the alert paths and the watched tags (checked under
   SpecMonitor) *)

\* a message for the pair is handed to the notifier in this step
SentNow(pr) == delivered'[pr] + failures'[pr] > delivered[pr] + failures[pr]

\* C18 (as stated): in a step of monitor.py that upserts a deal from the
\* live loop, a priority notification is sent for the deal exactly when the
\* deal is not expired, one of its tags is a watched tag, and the pair is not
\* in the alert history; and the pair enters the alert history only when the
\* message was delivered.
C18_Original ==
    [][(Len(deal_snapshots') > Len(deal_snapshots) /\ program = "core") =>
          LET d == last_upsert'.data
              pr == <<ResolvedId(d), "priority">>
          IN  /\ SentNow(pr) <=>
                    (/\ ~d.is_expired
                     /\ Matches(d, watch_requests) # {}
                     /\ pr \notin alert_history)
              /\ (pr \in alert_history' /\ pr \notin alert_history) =>
                    delivered'[pr] > delivered[pr]
      ]_vars

\* C19 (as stated): on a store this code created, every tag added and not
\* removed since is returned by get_watched_tags, which does not fail and
\* returns no other tag.
C19_Original ==
    (~is_active_column /\ watch_requests # {}) =>
        /\ ~get_watched_tags.raised
        /\ get_watched_tags.tags = watch_requests

\* the deals the trending query of the monitor returns in the current state
TrendingCandidates ==
    UNION {{rows[i].resolved_id : i \in DOMAIN rows} :
             rows \in get_trending_deals(live_deals, now, TrendingWindowHours, -1, MinHeatScore)}

\* C20 (as stated): in a timer-driven trending evaluation a notification is
\* sent for exactly the deals the trending query returns that have no
\* "trending" row in the alert history, whatever the outcome of the other
\* sends, and a "trending" row is added for a deal only when its message was
\* delivered.
C20_Original ==
    [][(trending_elapsed /\ ~trending_elapsed') =>
          \A id \in Ids :
             LET pr == <<id, "trending">>
             IN  /\ SentNow(pr) <=> (id \in TrendingCandidates /\ pr \notin alert_history)
                 /\ (pr \in alert_history' /\ pr \notin alert_history) =>
                       delivered'[pr] > delivered[pr]
      ]_vars

-----------------------------------------------------------------------------
(* Properties of the ingestion of a feed row (checked under SpecIngest) *)

\* a feed row is ingested in this step
Ingested == seen_rows' # seen_rows

\* C21: when the scrape of a feed row returns an error record, the step
\* changes no row of live_deals, appends no snapshot, sends no notification,
\* evaluates no alert and writes no row of alert_history.
C21_ScrapeErrorAborts ==
    [][(Ingested /\ last_event'.result.kind = "error") =>
          UNCHANGED <<live_deals, deal_snapshots, alert_history, alert_timestamp,
                      delivered, failures, evaluated, notifier_returns>>
      ]_vars

\* an error record arrived for a row after a deal was stored and alerted
C21_Witness ==
    /\ last_event.called
    /\ last_event.result.kind = "error"
    /\ DOMAIN live_deals # {}
    /\ alert_history # {}
    /\ Len(deal_snapshots) = 1

-----------------------------------------------------------------------------
(* Properties of the alert history (checked under SpecAlerts) *)

\* C22: no step removes a row of alert_history or changes its timestamp, so a
\* log_alert for a pair that is present leaves the table as it is, the table
\* holds one timestamp per pair, and has_alerted stays true once it is true.
C22_AlertHistoryKept ==
    [][/\ \A pr \in alert_history :
             /\ has_alerted(alert_history', pr[1], pr[2])
             /\ alert_timestamp'[pr] = alert_timestamp[pr]
       /\ DOMAIN alert_timestamp' = alert_history'
       /\ last_log_alert' # last_log_alert =>
             alert_history' = alert_history \cup {last_log_alert'.pair}
      ]_vars

\* log_alert was called for a pair that had been logged at an earlier hour
C22_Witness ==
    /\ last_log_alert.called
    /\ last_log_alert.present
    /\ alert_timestamp[last_log_alert.pair] < last_log_alert.at
    /\ Cardinality(alert_history) = 2

-----------------------------------------------------------------------------
(* Properties of the title lookup (checked under SpecResolve) *)

\* text contains sub, letters compared whatever their case
Contains(text, sub) ==
    \E i \in 1..(Len(text) - Len(sub) + 1) :
       \A j \in 1..Len(sub) : Lower(text[i + j - 1]) = Lower(sub[j])

IsNodeId(id) == StartsWith(Spelling[id], Spelling["node/"])

ExactRows(table, title) == {id \in DOMAIN table : IsNodeId(id) /\ table[id].title = title}
ContainingRows(table, title) ==
    {id \in DOMAIN table : IsNodeId(id) /\ Contains(Spelling[table[id].title], Spelling[title])}

\* what the lookup is said to return for a title
Stated(table, title, value) ==
    IF title = "" \/ ExactRows(table, title) \cup ContainingRows(table, title) = {}
    THEN value = None
    ELSE IF ExactRows(table, title) # {}
         THEN value \in ExactRows(table, title)
         ELSE value \in ContainingRows(table, title)

\* C23: the value of resolve_node_id_by_title is none for an empty title or
\* when no node row matches, else the id of a node row whose title equals the
\* title, or, when there is no such row, of a node row whose title contains it.
C23_Original ==
    (last_resolve.called /\ last_resolve.value \in resolve_node_id_by_title(live_deals, last_resolve.title))
       => Stated(live_deals, last_resolve.title, last_resolve.value)

\* C23 (part that holds): the value is never the id of a comment or a URL, it
\* is none for an empty title, and a node row with the very title wins.
C23_NodeOnly ==
    \A title \in AskedTitles : \A value \in resolve_node_id_by_title(live_deals, title) :
       /\ value # None => value \in DOMAIN live_deals /\ IsNodeId(value)
       /\ title = "" => value = None
       /\ ExactRows(live_deals, title) # {} => value \in ExactRows(live_deals, title)

-----------------------------------------------------------------------------
(* Properties of the fast scrape and of the task that uses it (checked under
   SpecFast) *)

\* C24: the fast scrape of a URL gives an error record with the error text
\* and the requested URL when a step fails, and otherwise a record whose id
\* is the node/<n> of the resolved URL; a task whose scrape is an error
\* record returns false and leaves the store as it was.
C24_Original ==
    last_event.called =>
       /\ last_event.response.kind = "failed" =>
             /\ last_event.result.kind = "error"
             /\ last_event.result.error = last_event.response.text
             /\ last_event.result.url = last_event.url
       /\ (last_event.response.kind = "page" /\ last_event.response.parsed) =>
             /\ last_event.result.kind = "ok"
             /\ StartsWith(Spelling[last_event.result.data.id], Spelling["node/"])
             /\ StartsWith(Spelling[last_event.response.final_url],
                           Spelling[last_event.result.data.id])
       /\ last_event.result.kind = "error" =>
             /\ ~last_event.returned
             /\ live_deals = last_event.before

\* C24 (part that holds): failures give error records with the requested URL,
\* and a task given an error record returns false without a write.
C24_ErrorsReturned ==
    [][(last_event' # last_event /\ last_event'.result.kind = "error") =>
          /\ last_event'.response.kind = "failed" =>
                last_event'.result.error = last_event'.response.text
          /\ last_event'.result.url = last_event'.url
          /\ ~last_event'.returned
          /\ UNCHANGED <<storeVars, user_activity>>]_vars

-----------------------------------------------------------------------------
(* Properties of the session's seen-set (checked under SpecIngest and
   SpecMonitor) *)

\* C25: rows are skipped by their normalized URL, so the rows scraped and
\* upserted in a session have different normalized URLs: there are never more
\* upserts (one snapshot each) than normalized URLs in the seen-set.
C25_Original ==
    Len(deal_snapshots) <= Cardinality({Normalize(u) : u \in seen_rows})

\* C25 (part that holds): the seen-set only grows
C25_SeenGrows == [][seen_rows \subseteq seen_rows']_vars

-----------------------------------------------------------------------------
(* Properties of expired deals (checked under SpecMonitor) *)

\* no message is sent and no alert row is added for the deal in this step
Silent(id) ==
    \A type \in AlertTypes :
       /\ ~SentNow(<<id, type>>)
       /\ <<id, type>> \in alert_history' => <<id, type>> \in alert_history

\* C26: once a deal is stored with is_expired true, no alert evaluation made
\* from then on sends a notification or adds an alert row for it.
C26_Original ==
    [][\A id \in Ids :
          (id \in DOMAIN live_deals /\ live_deals[id].is_expired) => Silent(id)]_vars

\* C26 (part that holds): no alert evaluation sends a notification or adds an
\* alert row for a deal whose stored row is expired when it is made.
C26_ExpiredNow ==
    [][\A id \in Ids :
          (id \in DOMAIN live_deals' /\ live_deals'[id].is_expired) => Silent(id)]_vars

\* an expired deal with watched tags and a trending heat score was stored by
\* the core monitor, after its trending check, and nothing was sent
C26_Witness ==
    /\ program = "core"
    /\ enabled
    /\ ~trending_elapsed
    /\ last_upsert.called
    /\ last_upsert.data.is_expired
    /\ ~get_watched_tags.raised
    /\ Matches(last_upsert.data, get_watched_tags.tags) # {}
    /\ last_upsert.data.id \in DOMAIN live_deals
    /\ live_deals[last_upsert.data.id].is_expired
    /\ live_deals[last_upsert.data.id].upvotes * 2 >= MinHeatScore
    /\ alert_history = {}

-----------------------------------------------------------------------------
(* Properties of the events of comments (checked under SpecIngest) *)

IsCommentId(id) == StartsWith(Spelling[id], Spelling["comment/"])

\* the node ids resolve_node_id_by_title may give for a title
ParentsFound(title) == resolve_node_id_by_title(live_deals, title) \ {None}

\* C27: in the core monitor, when the scraped id of an event is a comment id
\* and resolve_node_id_by_title finds a node for its title, the upsert and the
\* alert evaluation use that node's id and no row is created; when none is
\* found, they use the comment id, which gets a row.
C27_CommentToParent ==
    [][(program = "core" /\ Ingested /\ last_event'.result.kind = "ok"
          /\ IsCommentId(last_event'.result.data.id)) =>
          LET used == last_upsert'.data.id
              parents == ParentsFound(last_upsert'.data.title)
          IN  /\ \A pr \in alert_history' \ alert_history : pr[1] = used
              /\ IF parents # {}
                 THEN /\ used \in parents
                      /\ DOMAIN live_deals' = DOMAIN live_deals
                 ELSE /\ used = last_event'.result.data.id
                      /\ DOMAIN live_deals' = DOMAIN live_deals \cup {used}
      ]_vars

\* the event of a comment was stored under the node found by its title
C27_Witness ==
    /\ program = "core"
    /\ last_event.called
    /\ last_event.result.kind = "ok"
    /\ last_event.result.data.id = "comment/7"
    /\ last_upsert.data.id = "node/1"
    /\ DOMAIN live_deals = {"node/1"}
    /\ Len(deal_snapshots) = 2

\* the event of a comment was stored under the comment id as no node was found
C27_WitnessNoParent ==
    /\ program = "core"
    /\ last_event.called
    /\ last_event.result.kind = "ok"
    /\ last_event.result.data.id = "comment/7"
    /\ last_upsert.data.id = "comment/7"
    /\ DOMAIN live_deals = {"node/1", "comment/7"}
    /\ <<"comment/7", "priority">> \in alert_history

-----------------------------------------------------------------------------
(* Properties of the rows of live_deals (checked under SpecStore) *)

\* C28: no step removes an id from live_deals, and an upsert of an id that has
\* a row replaces that row, so there is one row per resolved_id.
C28_RowsNeverDeleted ==
    [][/\ DOMAIN live_deals \subseteq DOMAIN live_deals'
       /\ last_upsert' # last_upsert =>
             DOMAIN live_deals' = DOMAIN live_deals \cup {ResolvedId(last_upsert'.data)}
      ]_vars

\* two deals are stored, an alert is logged, and a storage handle was opened
\* and a cleanup run at a later hour
C28_Witness ==
    /\ Cardinality(DOMAIN live_deals) = 2
    /\ alert_history # {}
    /\ last_cleanup.called
    /\ last_cleanup.hours = DefaultRetentionHours
    /\ last_cleanup.clock > 0
    /\ Len(deal_snapshots) < 2

-----------------------------------------------------------------------------
(* Properties of the merge of a feed row with its scrape (checked under
   SpecIngest) *)

\* the core monitor has stored the scrape of the last feed row
StoredLastEvent ==
    /\ program = "core"
    /\ last_event.called
    /\ last_event.result.kind = "ok"
    /\ last_upsert.called

\* C29: the title stored for a feed row is the row's title when the scraped
\* title is empty or a placeholder and the row's title is not empty, and the
\* scraped title otherwise.
C29_Original ==
    StoredLastEvent =>
       LET scraped == last_event.result.data.title
           hint == last_event.row.title
       IN  last_upsert.data.title =
              IF (scraped = "" \/ scraped \in PlaceholderTitles) /\ hint # "" THEN hint
              ELSE scraped

\* C29 (what the code does): the title stored is the text of the row's link
C29_RowTitleStored ==
    StoredLastEvent => last_upsert.data.title = last_event.row.title


\* a monitor has stored the scrape of the last feed row
StoredEvent ==
    /\ last_event.called
    /\ last_event.result.kind = "ok"
    /\ last_upsert.called

\* the row of live_deals written for the last feed row
StoredRow == live_deals[ResolvedId(last_upsert.data)]

\* C30: resolved_url is the URL the scraper ended at; original_url is the URL
\* of the feed row that first led to the deal, and stays so at later upserts
\* of the same resolved_id.
C30_Original ==
    StoredEvent =>
       /\ StoredRow.resolved_url = last_event.result.data.url
       /\ StoredRow.original_url =
             IF ResolvedId(last_upsert.data) \in DOMAIN last_event.before
             THEN last_event.before[ResolvedId(last_upsert.data)].original_url
             ELSE last_event.row.url

\* C30 (what the code does): both columns hold the URL the scraper ended at
C30_BothResolved ==
    StoredEvent =>
       /\ StoredRow.resolved_url = last_event.result.data.url
       /\ StoredRow.original_url = last_event.result.data.url

-----------------------------------------------------------------------------
(* Properties of the exceptions of a feed row (checked under SpecIngest) *)

\* C31: an exception while a row is processed that does not say the browser
\* is closed leaves the loop polling, and one that says so takes the monitor
\* to its recovery handler.
C31_Original ==
    [][Ingested =>
          /\ last_event'.result.kind = "raised" => mpc' = "polling"
          /\ last_event'.result.kind = "closed" => mpc' = "recovering"]_vars

\* C31 (part that holds): the same for the core monitor alone, and no
\* exception of a row ends or redirects the legacy loop
C31_CoreOnly ==
    [][Ingested =>
          /\ last_event'.result.kind = "raised" => mpc' = "polling"
          /\ (last_event'.result.kind = "closed" /\ program = "core") => mpc' = "recovering"
          /\ (last_event'.result.kind = "closed" /\ program = "legacy") => mpc' = "broken"
      ]_vars

-----------------------------------------------------------------------------
(* Properties of the loop under storage errors (checked under SpecFaults) *)

\* a step of the loop in which an operation of the store raised
StoreFaultStep ==
    /\ seen_rows' # seen_rows \/ (trending_elapsed /\ ~trending_elapsed')
    /\ last_event'.fault # "none"

\* C32: a step in which an operation of the store fails leaves the loop
\* polling, and when the failing operation is log_alert the messages are sent
\* and the alert history stays as it was, so that the pair is sent again by a
\* later evaluation.
C32_StorageErrorsSwallowed ==
    [][StoreFaultStep =>
          /\ mpc = "polling" /\ mpc' = "polling"
          /\ last_event'.fault = "log_alert" => alert_history' = alert_history
          /\ last_event'.fault \in {"upsert", "get_trending_deals"} =>
                UNCHANGED <<storeVars, notifyVars>>
      ]_vars

\* a priority message was delivered twice for a deal whose log_alert failed,
\* and the loop is still polling
C32_Witness ==
    /\ last_event.called
    /\ last_event.fault = "log_alert"
    /\ mpc = "polling"
    /\ delivered[<<"node/1", "priority">>] = 2
    /\ <<"node/1", "priority">> \notin alert_history

-----------------------------------------------------------------------------
(* Properties of the two alert types (checked under SpecFaults) *)

NewlyLogged(id, type) == <<id, type>> \in alert_history' /\ <<id, type>> \notin alert_history

\* a message for the pair is sent in this step (the counters stop at 2)
SentOrCounted(pr) == SentNow(pr) \/ delivered[pr] = 2

SameAnswer(id, type) ==
    has_alerted(alert_history', id, type) = has_alerted(alert_history, id, type)

\* C33: logging an alert of one type for a deal leaves has_alerted of the
\* other type as it was; a trending check sends for every candidate without a
\* trending row, and a stored row whose priority alert is due and not logged
\* is sent, whatever the other type's row says (no store operation failing).
C33_TypesIndependent ==
    [][\A id \in Ids :
          /\ NewlyLogged(id, "priority") => SameAnswer(id, "trending")
          /\ NewlyLogged(id, "trending") => SameAnswer(id, "priority")
          /\ (trending_elapsed /\ ~trending_elapsed' /\ last_event'.fault = "none"
                /\ id \in DOMAIN live_deals
                /\ TrendingWhere(live_deals[id], now, TrendingWindowHours, MinHeatScore)
                /\ ~has_alerted(alert_history, id, "trending")) =>
                SentOrCounted(<<id, "trending">>)
          /\ (deal_snapshots' # deal_snapshots /\ last_event'.fault = "none"
                /\ <<id, "priority">> \in PriorityDue(ResolvedId(last_upsert'.data),
                                                      last_upsert'.data)
                /\ ~has_alerted(alert_history, id, "priority")) =>
                SentOrCounted(<<id, "priority">>)
      ]_vars

\* a deal got its priority alert and later its trending alert
C33_Witness ==
    /\ {<<"node/1", "priority">>, <<"node/1", "trending">>} \subseteq alert_history
    /\ delivered[<<"node/1", "priority">>] = 1
    /\ delivered[<<"node/1", "trending">>] = 1
    /\ last_event.fault = "none"

-----------------------------------------------------------------------------
(* Properties of the trending query and the snapshots (checked under
   SpecHeat) *)

\* contents the snapshot table could have instead: none, all but the first,
\* what each cleanup would leave, and one more snapshot
SnapshotVariants ==
    {<<>>, SubSeq(deal_snapshots, 2, Len(deal_snapshots))}
    \cup {cleanup_snapshots(deal_snapshots, now, hours) : hours \in RetentionChoices}
    \cup {Append(deal_snapshots, [deal_id |-> "node/1", timestamp |-> now,
                                  upvotes |-> 50, comment_count |-> 50])}

\* C34: get_trending_deals gives the same results on every store with the
\* same live_deals table, whatever its snapshot table holds, so also before
\* and after a cleanup_snapshots.
C34_SnapshotsIrrelevant ==
    \A hours \in QueryHours, limit \in QueryLimits, min_score \in QueryScores :
       \A other \in SnapshotVariants :
          trending_query([live_deals |-> live_deals, deal_snapshots |-> other],
                         now, hours, limit, min_score)
             = trending_query(Store, now, hours, limit, min_score)

\* a cleanup deleted a snapshot of a deal and the query then returned the deal
C34_Witness ==
    /\ last_cleanup.called
    /\ Len(deal_snapshots) < Len(last_cleanup.before[2])
    /\ last_cleanup.clock = now
    /\ trending_result.called
    /\ Len(trending_result.rows) > 0
    /\ \E i \in DOMAIN last_cleanup.before[2] :
          /\ last_cleanup.before[2][i].deal_id = trending_result.rows[1].resolved_id
          /\ ~SnapshotKept(last_cleanup.before[2][i], last_cleanup.clock, last_cleanup.hours)

-----------------------------------------------------------------------------
(* Properties of the walk over the activity page (checked under
   FairSpecWalk) *)

\* at most max_items items were yielded
WalkBounded == Len(walk.yielded) <= walk.max_items

\* no url was yielded twice
WalkDistinct ==
    \A i, j \in DOMAIN walk.yielded : walk.yielded[i] = walk.yielded[j] => i = j

\* C35: the walk yields at most max_items items, never the same url twice,
\* and ends, whatever the page does.
C35_Original ==
    /\ [](WalkBounded /\ WalkDistinct)
    /\ <>(walk.pc \in {"done", "raised"})

-----------------------------------------------------------------------------
(* Properties of the relative times (checked under SpecParse) *)

\* the texts that are a count and a unit, with the count and the unit meant
CountTexts ==
    "5 min" :> <<5, "min">> @@ "5 minutes ago" :> <<5, "min">> @@ "0 min" :> <<0, "min">> @@
    "3 sec" :> <<3, "sec">> @@ "90 sec" :> <<90, "sec">> @@ "1 hour" :> <<1, "hour">> @@
    "2 hours" :> <<2, "hour">> @@ " 2 Hours " :> <<2, "hour">> @@
    "25 hours" :> <<25, "hour">> @@ "1 day" :> <<1, "day">> @@
    "2 days ago" :> <<2, "day">> @@ "-1 min" :> <<-1, "min">> @@ "+5 min" :> <<5, "min">> @@
    "1_0 min" :> <<10, "min">> @@
    "800000 days" :> <<800000, "day">> @@ "18000000 hours" :> <<18000000, "hour">> @@
    "1000000000 days" :> <<1000000000, "day">>

\* the texts that are neither "now" nor a count and a unit
OtherTexts == (TimeTexts \ DOMAIN CountTexts) \ {"now"}

UnitsPerDay == "sec" :> 86400 @@ "min" :> 1440 @@ "hour" :> 24 @@ "day" :> 1
SecondsPerUnit == "sec" :> 1 @@ "min" :> 60 @@ "hour" :> 3600 @@ "day" :> 86400

\* the time n units before a time, as a day number (of any sign) and a second
Before(at, n, unit) ==
    LET days == n \div UnitsPerDay[unit]
        seconds == (n % UnitsPerDay[unit]) * SecondsPerUnit[unit]
    IN  IF at.sec >= seconds
        THEN [day |-> at.day - days, sec |-> at.sec - seconds]
        ELSE [day |-> at.day - days - 1, sec |-> at.sec - seconds + 86400]

\* a datetime and a timedelta can hold the time and the n units
Representable(at, n, unit) ==
    /\ Before(at, n, unit).day \in 1..3652059
    /\ n \div UnitsPerDay[unit] \in -999999999..999999999

NotLater(value, at) == value.day < at.day \/ (value.day = at.day /\ value.sec <= at.sec)

\* C36 as stated: "now" gives the current time, a count and a unit give the
\* current time minus that many units, every other text gives the current
\* time, and the value is never later than the current time for a count >= 0.
C36_Original ==
    last_parse.called =>
       LET text == last_parse.time_str
       IN  /\ text = "now" => last_parse.value = last_parse.at
           /\ text \in DOMAIN CountTexts =>
                 last_parse.value = Before(last_parse.at, CountTexts[text][1], CountTexts[text][2])
           /\ text \in OtherTexts => last_parse.value = last_parse.at
           /\ (text \in DOMAIN CountTexts => CountTexts[text][1] >= 0) =>
                 NotLater(last_parse.value, last_parse.at)

\* C36: "now" gives the current time, a count and a unit give the current
\* time minus that many units when a datetime can hold that time and the
\* current time when it cannot, every other text gives the current time, and
\* the value is never later than the current time for a count >= 0.
C36_ParseFailsOpen ==
    last_parse.called =>
       LET text == last_parse.time_str
       IN  /\ text = "now" => last_parse.value = last_parse.at
           /\ text \in DOMAIN CountTexts =>
                 LET n == CountTexts[text][1]
                     unit == CountTexts[text][2]
                 IN  last_parse.value = IF Representable(last_parse.at, n, unit)
                                        THEN Before(last_parse.at, n, unit)
                                        ELSE last_parse.at
           /\ text \in OtherTexts => last_parse.value = last_parse.at
           /\ (text \in DOMAIN CountTexts => CountTexts[text][1] >= 0) =>
                 NotLater(last_parse.value, last_parse.at)

\* "90 sec" parsed at midnight gives 23:58:30 of the day before
C36_Witness ==
    /\ last_parse.called
    /\ last_parse.time_str = "90 sec"
    /\ last_parse.at = [day |-> EpochDay, sec |-> 0]
    /\ last_parse.value = [day |-> EpochDay - 1, sec |-> 86310]

-----------------------------------------------------------------------------
(* Properties of the url handed to the scraper (checked under SpecIngest) *)

\* C37: the core monitor hands the scraper the link of a deal (node) without
\* its /redir segment and the link of a comment as it is, /redir included;
\* the path is never changed.
C37_RedirOnlyOffDeals ==
    (last_event.called /\ program = "core") =>
       LET url == last_event.row.url
           scraped == last_event.scraped
       IN  /\ scraped.path = url.path
           /\ IsNodeId(url.path) => ~scraped.redir
           /\ ~IsNodeId(url.path) => scraped = url
           /\ UrlText(scraped) = normalize_url(UrlText(url))

\* the link of a comment went to the scraper with its /redir
C37_Witness ==
    /\ last_event.called
    /\ program = "core"
    /\ last_event.row.url = [path |-> "comment/7", redir |-> TRUE]
    /\ last_event.scraped = [path |-> "comment/7", redir |-> TRUE]
    /\ last_event.result.kind = "ok"

-----------------------------------------------------------------------------
(* Properties of the source column (checked under Spec) *)

\* the ids some result of the trending query holds, over its arguments
TrendingIds(table, clock) ==
    {id \in DOMAIN table :
        \E hours \in QueryHours, limit \in QueryLimits, min_score \in {0, 2, 20} :
           \E rows \in get_trending_deals(table, clock, hours, limit, min_score) :
              \E i \in DOMAIN rows : rows[i].resolved_id = id}

\* C38: an upsert stores the source it is given whatever the row held; a deal
\* upserted by a backfill worker is in no result of the trending query, a deal
\* upserted by the live loop is (when not expired, at min_score 0), and a
\* stored counter above 0 is kept when the incoming one is 0.
C38_SourceOverwritten ==
    [][last_upsert' # last_upsert =>
          LET id == ResolvedId(last_upsert'.data)
              row == live_deals'[id]
          IN  /\ row.source = last_upsert'.source
              /\ row.source = "manual_fetch" => id \notin TrendingIds(live_deals', now')
              /\ (row.source = "live" /\ ~row.is_expired) => id \in TrendingIds(live_deals', now')
              /\ \A field \in {"upvotes", "comment_count"} :
                    (id \in DOMAIN live_deals /\ live_deals[id][field] > 0
                        /\ last_upsert'.data[field] = 0)
                    => row[field] = live_deals[id][field]]_vars

\* a deal stored by the live loop with upvotes was upserted by a backfill
\* worker: its source is manual_fetch and its upvotes are the stored ones
C38_Witness ==
    /\ last_upsert.called
    /\ last_upsert.source = "manual_fetch"
    /\ last_upsert.prior.present
    /\ last_upsert.prior.upvotes > 0
    /\ LET row == live_deals[ResolvedId(last_upsert.data)]
       IN  /\ row.source = "manual_fetch"
           /\ row.upvotes = last_upsert.prior.upvotes
           /\ HeatScore(row) >= 2

-----------------------------------------------------------------------------
(* Properties of the write transaction (checked under SpecTxn) *)

\* the last snapshot of a deal
LastSnapshotOf(id) ==
    LET at == {i \in DOMAIN deal_snapshots : deal_snapshots[i].deal_id = id}
    IN  deal_snapshots[CHOOSE i \in at : \A j \in at : j <= i]

\* C39: what another connection reads is always whole upserts: every stored
\* row has its snapshot with the same counters and timestamp as the last
\* snapshot of its deal, every snapshot has its row, and there are as many
\* snapshots as committed upserts, also after an upsert that failed between
\* its two writes.
C39_WritesVisibleTogether ==
    /\ Len(deal_snapshots) = Cardinality({w \in Callers : wpc[w] = "done"})
    /\ \A i \in DOMAIN deal_snapshots : deal_snapshots[i].deal_id \in DOMAIN live_deals
    /\ \A id \in DOMAIN live_deals :
          /\ \E i \in DOMAIN deal_snapshots : deal_snapshots[i].deal_id = id
          /\ LastSnapshotOf(id).upvotes = live_deals[id].upvotes
          /\ LastSnapshotOf(id).comment_count = live_deals[id].comment_count
          /\ LastSnapshotOf(id).timestamp = live_deals[id].timestamp

\* the monitor's upsert failed after its first INSERT, a worker's upsert of
\* the same deal was committed after it, and the monitor's values are not
\* in the table
C39_Witness ==
    /\ wpc["monitor"] = "rolled_back"
    /\ wpc["worker1"] = "done"
    /\ ResolvedId(wdata["monitor"]) = ResolvedId(wdata["worker1"])
    /\ wdata["monitor"].upvotes > 0
    /\ live_deals[ResolvedId(wdata["monitor"])].upvotes = 0
    /\ Len(deal_snapshots) = 1

-----------------------------------------------------------------------------
(* Properties of the rows that failed (checked under SpecFeed) *)

\* the scrape of the row returned an error record or raised
ScrapeFailed(event) == event.called /\ event.result.kind \in {"error", "raised"}

====
